---- MODULE Spec2Model ----
(***************************************************************************)
(* A model of tool-api: the document graph (api.ts), the request template *)
(* synthesizer (handle/request.ts) and the schema-to-template engine      *)
(* (handle/schema.ts).                                                     *)
(*                                                                         *)
(* The document is read-only state chosen in Init; every accessor or      *)
(* generator call of the program is one action that applies the operator  *)
(* translated from its code and stores what it returned.                  *)
(*                                                                         *)
(* An optional value (a field that may be undefined) is <<>> when absent  *)
(* and <<v>> when present, so that an absent list and an empty list       *)
(* differ, as undefined and [] differ in the program.                     *)
(***************************************************************************)
EXTENDS Integers, Sequences, FiniteSets, TLC

None == <<>>
Some(v) == <<v>>
IsDefined(o) == o # <<>>
Value(o) == o[1]

\* Absent string field.
Undefined == "undefined"

Range(s) == {s[i] : i \in 1..Len(s)}

\* All sequences over S of length at most n.
RECURSIVE SeqsUpTo(_, _)
SeqsUpTo(S, n) ==
  IF n = 0 THEN {<<>>}
  ELSE LET shorter == SeqsUpTo(S, n - 1)
       IN shorter \cup {Append(s, x) : s \in {t \in shorter : Len(t) = n - 1}, x \in S}

\* An optional list over S of length at most n: undefined, or a list.
OptSeqsUpTo(S, n) == {None} \cup {Some(s) : s \in SeqsUpTo(S, n)}

----------------------------------------------------------------------------
(* Bounds of the model. *)

\* Longest parameters list of an operation or of a path item.
MaxParams == 2
\* Longest servers list of an operation, a path item or the API.
MaxServers == 1
\* Most content types of a request body.
MaxContent == 2
\* Longest $ref resolution chain of a path item.
MaxChain == 3
\* Number of schema nodes of a document.
MaxSchemaNodes == 3

----------------------------------------------------------------------------
(* The document and the results of the calls made on it. *)

VARIABLES
  chain,        \* the path item and the path items its $ref chain resolves to, closest first
  loopTo,       \* 0, or the position of chain that the last path item's $ref resolves to
  opNode,       \* the raw operation node: parameters, servers, requestBody
  apiServers,   \* the API's servers (optional list)
  options,      \* options of generateApiHandleRequest: the server option
  allParams,    \* what operation.allParameters returned (optional)
  yielded,      \* what pathItem.operations() has yielded so far
  cursor,       \* operations(): position in chain of the local pathItem, 0 once undefined
  entry,        \* operations(): index of the next entry of pathItem.node to look at
  seen,         \* operations(): the set of keys already yielded
  accessed,     \* what the method accessors called so far returned, by method
  request,      \* what the last call of generateApiHandleRequest returned or threw (optional)
  earlier,      \* what the calls of generateApiHandleRequest before the last returned or threw
  schemaCall,   \* the schema and state generateSchemaTemplate is called with
  templates,    \* the calls of the template engine made so far, with their results
  nameCall,     \* the operation whose handle name is computed: operationId, key, path
  handleName,   \* the handle name that was computed (optional)
  stack,        \* the calls of the template engine in progress, the innermost last
  phase,        \* where generateMasterTemplate is: idle, the call it is waiting for, or how it ended
  turns,        \* the parity of the iterations the loop in progress has made
  filterCall,   \* the options and the operation the operation filter is applied to
  accepted,     \* what the operation filter returned (optional)
  parseCall,    \* the object the validator is called on: its kind and its keys
  parsed,       \* how the validator's call ended (optional)
  args,         \* the command line of generate or batch, once the command runs
  files,        \* the OpenAPI files the command found
  disk,         \* the paths at which a file exists
  effects,      \* the mkdir and writeFile calls made so far, in order
  tasks,        \* batch: where the processing of each file is
  batchStart,   \* batch: the index i of the loop over the groups of files
  runState,     \* where the command's run is: idle, looping, awaiting, or how it ended
  counts        \* the counters of the command's summary

docVars == <<chain, loopTo, opNode, apiServers, options>>
paramVars == <<allParams>>
opsVars == <<yielded, cursor, entry, seen, accessed>>
reqVars == <<request, earlier>>
tplVars == <<schemaCall, templates>>
nameVars == <<nameCall, handleName>>
walkVars == <<stack, phase, turns>>
filterVars == <<filterCall, accepted>>
parseVars == <<parseCall, parsed>>
cliVars == <<args, files, disk, effects, tasks, batchStart, runState, counts>>
frontVars == <<filterVars, parseVars, cliVars>>
vars == <<chain, loopTo, opNode, apiServers, options, allParams, yielded, cursor,
          entry, seen, accessed, request, earlier, schemaCall, templates, nameCall, handleName,
          stack, phase, turns, filterCall, accepted, parseCall, parsed, args, files,
          disk, effects, tasks, batchStart, runState, counts>>

----------------------------------------------------------------------------
(* ApiPathItem and ApiOperation accessors (api.ts). *)

\* ApiPathItem.resolved: the position of the path item the $ref of the one
\* at position i resolves to, or 0.
Resolved(ch, lt, i) == IF i < Len(ch) THEN i + 1 ELSE lt

\* ApiPathItem.parameters: the node's own list, else the resolved target's.
RECURSIVE PathItemParametersFrom(_, _)
PathItemParametersFrom(ch, i) ==
  IF i > Len(ch) THEN None
  ELSE IF IsDefined(ch[i].parameters) THEN ch[i].parameters
  ELSE PathItemParametersFrom(ch, i + 1)

PathItemParameters(ch) == PathItemParametersFrom(ch, 1)

\* A plausible slip: compares the name only.
HasParameterByName(parameters, name, location) ==
  \E i \in 1..Len(parameters) : parameters[i].name = name

\* hasParameter
HasParameter(parameters, name, location) ==
  \E i \in 1..Len(parameters) :
    parameters[i].name = name /\ parameters[i].in = location

\* The loop of allParameters over the path item's parameters.
RECURSIVE IncludePathItemParameters(_, _)
IncludePathItemParameters(parameters, rest) ==
  IF rest = <<>> THEN parameters
  ELSE IF HasParameter(parameters, Head(rest).name, Head(rest).in)
       THEN IncludePathItemParameters(parameters, Tail(rest))
       ELSE IncludePathItemParameters(Append(parameters, Head(rest)), Tail(rest))

\* ApiOperation.allParameters
AllParameters(op, ch) ==
  LET direct == IF IsDefined(op.parameters) THEN Value(op.parameters) ELSE <<>>
      inherited == PathItemParameters(ch)
  IN IF IsDefined(inherited)
     THEN IncludePathItemParameters(direct, Value(inherited))
     ELSE direct

----------------------------------------------------------------------------
(* Raw nodes of the document. *)

\* A parameter object: node tells the list that declares it (the operation's,
\* the path item's, or the $ref target's), schema is present when the
\* parameter has an object-valued schema.
Parameter(node, name, location, required, schema, description) ==
  [node |-> node, name |-> name, in |-> location, required |-> required,
   schema |-> schema, description |-> description]

\* A path item object: the keys of the node in document order, and its
\* parameters and servers lists.
PathItemNode(keys, parameters, servers) ==
  [keys |-> keys, parameters |-> parameters, servers |-> servers]

\* An operation object.
OperationNode(parameters, servers, requestBody) ==
  [parameters |-> parameters, servers |-> servers, requestBody |-> requestBody]

\* The options of a call that passes none.
NoOptions == [server |-> None]

\* The states of the calls before any call is made.
NoParamsCall == allParams = None
NoOperationsCall ==
  yielded = <<>> /\ cursor = 0 /\ entry = 0 /\ seen = {} /\ accessed = {}
NoRequestCall == request = None /\ earlier = <<>>
NoTemplateCall == schemaCall = None /\ templates = <<>>
NoNameCall ==
  nameCall = None /\ handleName = None /\ stack = <<>> /\ phase = "idle" /\ turns = 0
NoFilterCall == filterCall = None /\ accepted = None
NoParseCall == parseCall = None /\ parsed = None
NoCommand ==
  /\ args = None /\ files = <<>> /\ disk = {} /\ effects = <<>> /\ tasks = <<>>
  /\ batchStart = 0 /\ runState = "idle" /\ counts = None
NoFrontCall == NoFilterCall /\ NoParseCall /\ NoCommand

----------------------------------------------------------------------------
(* operation.allParameters on documents whose operation and path item      *)
(* declare parameters lists, the path item possibly through its $ref.      *)

KeyNames == {"id", "q"}
KeyLocations == {"query", "path"}

ParamsAt(node) ==
  {Parameter(node, n, l, FALSE, None, Undefined) : n \in KeyNames, l \in KeyLocations}

\* The $ref target of the path item: none, or one without parameters, with
\* an empty list, or with one parameter.
RefTargets ==
  {<<>>} \cup
  {<<PathItemNode(<<>>, p, None)>> :
     p \in {None, Some(<<>>)} \cup {Some(<<q>>) : q \in ParamsAt("ref")}}

InitParams ==
  /\ opNode \in {OperationNode(p, None, None) :
                   p \in OptSeqsUpTo(ParamsAt("operation"), MaxParams)}
  /\ NoFrontCall
  /\ chain \in {<<PathItemNode(<<"get">>, p, None)>> \o t :
                  p \in OptSeqsUpTo(ParamsAt("pathItem"), MaxParams), t \in RefTargets}
  /\ loopTo = 0
  /\ apiServers = None
  /\ options = NoOptions
  /\ NoParamsCall /\ NoOperationsCall /\ NoRequestCall /\ NoTemplateCall /\ NoNameCall

\* A read of operation.allParameters.
GetAllParameters ==
  /\ allParams = None
  /\ allParams' = Some(AllParameters(opNode, chain))
  /\ UNCHANGED <<docVars, frontVars, nameVars, walkVars, opsVars, reqVars, tplVars>>

NextParams == GetAllParameters

SpecParams == InitParams /\ [][NextParams]_vars

\* C1: the list returned by operation.allParameters contains no two entries
\* with the same (name, in) pair, whatever the operation-level and
\* path-item-level lists are.
C1_AllParametersUnique ==
  IsDefined(allParams) =>
    \A i, j \in 1..Len(Value(allParams)) :
      (Value(allParams)[i].name = Value(allParams)[j].name
         /\ Value(allParams)[i].in = Value(allParams)[j].in) => i = j

----------------------------------------------------------------------------
(* pathItem.operations(): the generator, one action per step of its loops, *)
(* on a path item whose $ref chain may lead back into itself.              *)

\* OPERATIONS: the keys of a path item object that are HTTP methods.
OPERATIONS == {"get", "put", "post", "delete", "options", "head", "patch", "trace"}

\* A plausible slip: forgets the set of methods already yielded.
SkipsEntryIgnoringSeen(key, seenKeys) == key \notin OPERATIONS

\* The test of the inner loop: the entry is not an operation, or its method
\* was yielded before.
SkipsEntry(key, seenKeys) == key \notin OPERATIONS \/ key \in seenKeys

\* The operation node stored under a method key of the path item at a
\* position of the chain.
OperationNodeAt(position, key) == <<position, key>>

\* new ApiOperation(key, node, pathItem)
ApiOperation(key, node, pathItem) == [key |-> key, node |-> node, pathItem |-> pathItem]

\* The keys a path item object of these documents may have, in document order.
PathItemKeys ==
  {<<>>, <<"get">>, <<"post">>, <<"summary", "put">>, <<"put", "get">>,
   <<"get", "x-note", "put">>}

InitOperations ==
  /\ NoFrontCall
  /\ chain \in SeqsUpTo({PathItemNode(k, None, None) : k \in PathItemKeys}, MaxChain)
  /\ chain # <<>>
  /\ loopTo \in 0..Len(chain)
  /\ opNode = OperationNode(None, None, None)
  /\ apiServers = None
  /\ options = NoOptions
  /\ yielded = <<>> /\ cursor = 1 /\ entry = 1 /\ seen = {} /\ accessed = {}
  /\ NoParamsCall /\ NoRequestCall /\ NoTemplateCall /\ NoNameCall

\* for (const [key, value] of Object.entries(pathItem.node)): continue.
OperationsSkip ==
  /\ cursor # 0
  /\ entry <= Len(chain[cursor].keys)
  /\ SkipsEntry(chain[cursor].keys[entry], seen)
  /\ entry' = entry + 1
  /\ UNCHANGED <<docVars, frontVars, nameVars, walkVars, paramVars, reqVars, tplVars, yielded, cursor, seen,
               accessed>>

\* seen.add(key); yield new ApiOperation(key, value, this).
OperationsYield ==
  /\ cursor # 0
  /\ entry <= Len(chain[cursor].keys)
  /\ ~SkipsEntry(chain[cursor].keys[entry], seen)
  /\ seen' = seen \cup {chain[cursor].keys[entry]}
  /\ yielded' = Append(yielded,
                       ApiOperation(chain[cursor].keys[entry],
                                    OperationNodeAt(cursor, chain[cursor].keys[entry]),
                                    1))
  /\ entry' = entry + 1
  /\ UNCHANGED <<docVars, frontVars, nameVars, walkVars, paramVars, reqVars, tplVars, cursor,
               accessed>>

\* pathItem = pathItem.resolved, and the test of the do-while.
OperationsResolve ==
  /\ cursor # 0
  /\ entry > Len(chain[cursor].keys)
  /\ cursor' = Resolved(chain, loopTo, cursor)
  /\ entry' = 1
  /\ turns' = 1 - turns
  /\ UNCHANGED <<docVars, frontVars, nameVars, stack, phase, paramVars, reqVars, tplVars, yielded,
               seen, accessed>>

NextOperations == OperationsSkip \/ OperationsYield \/ OperationsResolve

SpecOperations == InitOperations /\ [][NextOperations]_vars

\* The positions of the chain whose path item defines the method.
Definers(key) == {p \in 1..Len(chain) : key \in Range(chain[p].keys)}

\* The closest path item of the chain that defines the method.
ClosestDefiner(key) == CHOOSE p \in Definers(key) : \A q \in Definers(key) : p <= q

\* C2: operations() yields each HTTP method at most once over the whole
\* $ref chain, and the node yielded for a method is the one of the closest
\* path item of the chain that defines it.
C2_OperationsClosestOnce ==
  /\ \A i, j \in 1..Len(yielded) : yielded[i].key = yielded[j].key => i = j
  /\ \A i \in 1..Len(yielded) :
       /\ yielded[i].key \in OPERATIONS
       /\ Definers(yielded[i].key) # {}
       /\ yielded[i].node = OperationNodeAt(ClosestDefiner(yielded[i].key), yielded[i].key)

\* The walk is over, it yielded a method of the immediate path item that a
\* referenced path item defines too, and a method only a referenced one defines.
C2_Witness ==
  /\ cursor = 0
  /\ \E i \in 1..Len(yielded) :
       yielded[i].node[1] = 1 /\ \E p \in Definers(yielded[i].key) : p > 1
  /\ \E i \in 1..Len(yielded) : yielded[i].node[1] > 1

----------------------------------------------------------------------------
(* The schema-to-template engine (handle/schema.ts).                       *)
(*                                                                         *)
(* The schema nodes of a document are a table g: node id -> schema object. *)
(* A schema object names its subschemas (items, property values, allOf     *)
(* members, the target its $ref resolved to) by node id; node is the id of *)
(* the document node the object is, or 0 for an object the engine made     *)
(* (a spread copy, a merge), for which getReference finds nothing. A text  *)
(* (title, description) is the sequence of its lines.                      *)

\* The heading levels the engine renders below; deeper falls back.
MaxHeadingDepth == 6

SchemaObject(node, type, title, description, default, items, properties, allOf, ref) ==
  [node |-> node, type |-> type, title |-> title, description |-> description,
   default |-> default, items |-> items, properties |-> properties, allOf |-> allOf,
   ref |-> ref]

\* {}: what spreading undefined gives.
EmptySchema == SchemaObject(0, Undefined, None, None, None, 0, None, None, 0)

\* getReference(context, schema)?.target: the id of the target, or 0.
ReferenceTarget(g, schema) == IF schema.node = 0 THEN 0 ELSE g[schema.node].ref

\* isArraySchema
IsArraySchema(schema) == schema.type = "array" \/ schema.items # 0

\* isObjectSchema
IsObjectSchema(schema) == schema.type = "object" \/ IsDefined(schema.properties)

\* isStringSchema, for a type that is a string or a list of strings.
IsStringSchema(schema) == schema.type \in {"string", "string,null"}

\* firstLine
FirstLine(text) == <<text[1]>>

\* text + suffix
TextPlus(text, suffix) == [text EXCEPT ![Len(text)] = @ \o suffix]

\* currentQuery, childrenQuery, childQuery: the query handed to formatQuery.
CurrentQuery(state) == <<[name |-> state.varname, wildcard |-> FALSE]>>
ChildrenQuery(state) ==
  <<[name |-> state.varname, wildcard |-> FALSE], [name |-> "", wildcard |-> TRUE]>>
ChildQuery(state, name) ==
  <<[name |-> state.varname, wildcard |-> FALSE], [name |-> name, wildcard |-> FALSE]>>

\* A plausible slip: the title and description seen last win.
RECURSIVE TraverseFromFarthest(_, _, _, _)
TraverseFromFarthest(g, schema, title, description) ==
  LET t == IF schema.title = None THEN title ELSE schema.title
      d == IF schema.description = None THEN description ELSE schema.description
      target == ReferenceTarget(g, schema)
  IN IF target = 0
     THEN [schema EXCEPT !.node = 0, !.title = t, !.description = d]
     ELSE TraverseFromFarthest(g, g[target], t, d)

\* traverseSchemaReference: the loop, carrying the title and description
\* collected so far, and the spread of the last schema of the chain.
RECURSIVE TraverseFrom(_, _, _, _)
TraverseFrom(g, schema, title, description) ==
  LET t == IF title = None THEN schema.title ELSE title
      d == IF description = None THEN schema.description ELSE description
      target == ReferenceTarget(g, schema)
  IN IF target = 0
     THEN [schema EXCEPT !.node = 0, !.title = t, !.description = d]
     ELSE TraverseFrom(g, g[target], t, d)

TraverseSchemaReference(g, schema) == TraverseFrom(g, schema, None, None)

\* properties[key] = value on a list of entries in insertion order.
SetProperty(entries, key, value) ==
  IF \E i \in 1..Len(entries) : entries[i][1] = key
  THEN [i \in 1..Len(entries) |->
          IF entries[i][1] = key THEN <<key, value>> ELSE entries[i]]
  ELSE Append(entries, <<key, value>>)

\* A plausible slip: a key that is already there keeps its value.
RECURSIVE KeepProperties(_, _)
KeepProperties(entries, more) ==
  IF more = <<>> THEN entries
  ELSE KeepProperties(IF \E i \in 1..Len(entries) : entries[i][1] = Head(more)[1]
                        THEN entries ELSE Append(entries, Head(more)),
                      Tail(more))

\* The loop properties[key] = value over the entries of a member.
RECURSIVE SetProperties(_, _)
SetProperties(entries, more) ==
  IF more = <<>> THEN entries
  ELSE SetProperties(SetProperty(entries, Head(more)[1], Head(more)[2]), Tail(more))

RECURSIVE ResolveSchema(_, _)
RECURSIVE MergeAllOf(_, _, _, _, _, _)

\* resolveAllOfSchema: the loop over the members, and the merged object.
MergeAllOf(g, schema, members, title, description, properties) ==
  IF members = <<>>
  THEN SchemaObject(0, "object", title, description, None, 0, Some(properties), None, 0)
  ELSE LET memberSchema == ResolveSchema(g, g[Head(members)])
       IN IF ~IsObjectSchema(memberSchema) THEN schema
          ELSE MergeAllOf(g, schema, Tail(members),
                          IF title = None THEN memberSchema.title ELSE title,
                          IF description = None THEN memberSchema.description
                                                ELSE description,
                          IF IsDefined(memberSchema.properties)
                            THEN SetProperties(properties, Value(memberSchema.properties))
                            ELSE properties)

\* resolveAllOfSchema
ResolveAllOfSchema(g, schema) ==
  IF ~IsDefined(schema.allOf) THEN schema
  ELSE MergeAllOf(g, schema, Value(schema.allOf), None, None, <<>>)

\* resolveSchema
ResolveSchema(g, schema) == ResolveAllOfSchema(g, TraverseSchemaReference(g, schema))

\* A heading of a level, with a literal title or with a query for its title.
HeadingOf(depth, text) == [h |-> depth, text |-> text, query |-> <<>>]
HeadingFrom(depth, query) == [h |-> depth, text |-> <<>>, query |-> query]

\* The fenced JSON block bound to the current path.
JsonCode(state) ==
  [lang |-> "json",
   code |-> [encode |-> "json", indent |-> TRUE, content |-> CurrentQuery(state)]]

\* generateFallbackTemplate
GenerateFallbackTemplate(state, schema) == JsonCode(state)

\* generateKeyPropertyItems: one item per property, with the digest of an
\* object-shaped property nested under it.
RECURSIVE GenerateKeyPropertyItems(_, _)
RECURSIVE KeyPropertyItemsOf(_, _)
KeyPropertyItemsOf(g, entries) ==
  IF entries = <<>> THEN <<>>
  ELSE LET propSchema == ResolveSchema(g, g[Head(entries)[2]])
           summary == [name |-> Head(entries)[1],
                       description |-> IF IsDefined(propSchema.description)
                                         THEN FirstLine(Value(propSchema.description))
                                         ELSE <<>>,
                       default |-> propSchema.default]
           subPropertyItems == IF IsObjectSchema(propSchema)
                                 THEN GenerateKeyPropertyItems(g, propSchema)
                                 ELSE <<>>
       IN <<[summary |-> summary, ul |-> subPropertyItems]>>
            \o KeyPropertyItemsOf(g, Tail(entries))

GenerateKeyPropertyItems(g, schema) ==
  IF ~IsDefined(schema.properties) THEN <<>>
  ELSE KeyPropertyItemsOf(g, Value(schema.properties))

\* The "Key properties" part of a master template.
KeyProperties(items) ==
  IF items # <<>> THEN <<[text |-> <<"**Key properties:**">>], [ul |-> items]>>
  ELSE <<>>

\* The raw value of a property of an object schema, or 0.
PropertyOf(schema, key) ==
  IF IsDefined(schema.properties)
       /\ \E i \in 1..Len(Value(schema.properties)) : Value(schema.properties)[i][1] = key
  THEN LET i == CHOOSE i \in 1..Len(Value(schema.properties)) :
                  Value(schema.properties)[i][1] = key
       IN Value(schema.properties)[i][2]
  ELSE 0

\* pickTitleProperty: the name of the title property, or Undefined.
PickTitleProperty(g, schema) ==
  IF PropertyOf(schema, "title") # 0 /\ IsStringSchema(g[PropertyOf(schema, "title")])
    THEN "title"
  ELSE IF PropertyOf(schema, "name") # 0 /\ IsStringSchema(g[PropertyOf(schema, "name")])
    THEN "name"
  ELSE IF PropertyOf(schema, "id") # 0 /\ IsStringSchema(g[PropertyOf(schema, "id")])
    THEN "id"
  ELSE Undefined

\* generateObjectMasterTemplate
GenerateObjectMasterTemplate(g, state, schema) ==
  LET title == IF IsDefined(schema.title) THEN Value(schema.title) ELSE <<"Object">>
  IN [block |->
        <<HeadingOf(state.depth, FirstLine(title))>>
        \o (IF IsDefined(schema.description)
              THEN <<[text |-> Value(schema.description)]>> ELSE <<>>)
        \o KeyProperties(GenerateKeyPropertyItems(g, schema))
        \o <<JsonCode(state)>>]

\* generateObjectElementTemplate
GenerateObjectElementTemplate(g, state, schema) ==
  LET titleProperty == PickTitleProperty(g, schema)
  IN [block |->
        <<IF titleProperty # Undefined
            THEN HeadingFrom(state.depth, ChildQuery(state, titleProperty))
            ELSE HeadingOf(state.depth, <<"Item">>),
          JsonCode(state)>>]

\* generateElementTemplate
GenerateElementTemplate(g, state, schema) ==
  LET resolved == ResolveSchema(g, schema)
  IN IF state.depth > MaxHeadingDepth THEN GenerateFallbackTemplate(state, resolved)
     ELSE IF IsObjectSchema(resolved)
            THEN GenerateObjectElementTemplate(g, state, resolved)
     ELSE GenerateFallbackTemplate(state, resolved)

\* The item schema and the state of the element of an array master template.
ItemSchemaOf(g, schema) ==
  IF schema.items = 0 THEN EmptySchema ELSE ResolveSchema(g, g[schema.items])
ItemState(state) == [state EXCEPT !.varname = "item", !.depth = @ + 1]

\* generateArrayMasterTemplate
GenerateArrayMasterTemplate(g, state, schema) ==
  LET itemSchema == ItemSchemaOf(g, schema)
      title == IF IsDefined(schema.title) THEN Value(schema.title)
               ELSE IF IsDefined(itemSchema.title)
                      THEN TextPlus(Value(itemSchema.title), " list")
               ELSE <<"List">>
      description == IF IsDefined(schema.description) THEN schema.description
                     ELSE itemSchema.description
  IN [block |->
        <<HeadingOf(state.depth, FirstLine(title))>>
        \o (IF IsDefined(description) THEN <<[text |-> Value(description)]>> ELSE <<>>)
        \o KeyProperties(GenerateKeyPropertyItems(g, itemSchema))
        \o <<[each |-> ChildrenQuery(state), as |-> "item",
              template |-> GenerateElementTemplate(g, ItemState(state), itemSchema)]>>]

\* generateMasterTemplate
GenerateMasterTemplate(g, state, schema) ==
  LET resolved == ResolveSchema(g, schema)
  IN IF IsArraySchema(resolved) THEN GenerateArrayMasterTemplate(g, state, resolved)
     ELSE IF IsObjectSchema(resolved)
            THEN GenerateObjectMasterTemplate(g, state, resolved)
     ELSE GenerateFallbackTemplate(state, resolved)

\* isObject(content) && !isArray(content), for what the engine produces.
IsObjectTemplate(content) == DOMAIN content \cap {"block", "lang"} # {}

\* generateSchemaTemplate
GenerateSchemaTemplate(g, state, schema) ==
  LET content == GenerateMasterTemplate(g, state, schema)
  IN [encode |-> "markdown",
      content |-> IF IsObjectTemplate(content) THEN content ELSE [block |-> content]]

\* The calls of generateMasterTemplate and generateElementTemplate that one
\* call of generateSchemaTemplate makes, each with the template it returned.
TemplateCalls(g, state, schema) ==
  LET resolved == ResolveSchema(g, schema)
  IN <<[fn |-> "generateMasterTemplate", state |-> state,
        template |-> GenerateMasterTemplate(g, state, schema)]>>
     \o (IF IsArraySchema(resolved)
           THEN <<[fn |-> "generateElementTemplate", state |-> ItemState(state),
                   template |-> GenerateElementTemplate(g, ItemState(state),
                                                        ItemSchemaOf(g, resolved))]>>
           ELSE <<>>)

----------------------------------------------------------------------------
(* generateSchemaTemplate on the schema tables of small documents: node 1  *)
(* is the schema the call is given, and a node refers to later nodes only. *)

SchemaTypes == {Undefined, "object", "array", "string"}
SchemaTitles == {None, Some(<<"Widget", "of the catalog">>)}

\* A node that refers to no other node: any type, with or without a title.
PlainNodes(id) ==
  {SchemaObject(id, type, title, None, None, 0, None, None, 0) :
     type \in SchemaTypes, title \in SchemaTitles}

\* A node that refers to the next node: by $ref (with or without a title of
\* its own), as its items, as a property, or as its one allOf member (with
\* or without a type and title of its own).
LinkedNodes(id) ==
  IF id < MaxSchemaNodes
  THEN {SchemaObject(id, Undefined, title, None, None, 0, None, None, id + 1) :
          title \in SchemaTitles}
       \cup {SchemaObject(id, type, None, None, None, id + 1, None, None, 0) :
               type \in {Undefined, "object"}}
       \cup {SchemaObject(id, type, None, None, None, 0, Some(<<<<"name", id + 1>>>>),
                          None, 0) : type \in {Undefined, "array"}}
       \cup {SchemaObject(id, Undefined, None, None, None, 0, None, Some(<<id + 1>>), 0),
             SchemaObject(id, "object", Some(<<"Own">>), None, None, 0, None,
                          Some(<<id + 1>>), 0)}
  ELSE {}

\* A node whose allOf has the next two nodes as members.
PairNodes(id) ==
  IF id + 1 < MaxSchemaNodes
  THEN {SchemaObject(id, Undefined, None, None, None, 0, None,
                     Some(<<id + 1, id + 2>>), 0)}
  ELSE {}

SchemaNodes(id) == PlainNodes(id) \cup LinkedNodes(id) \cup PairNodes(id)

\* The schema tables of n nodes.
RECURSIVE SchemaTablesOf(_)
SchemaTablesOf(n) ==
  IF n = 0 THEN {<<>>}
  ELSE {Append(g, node) : g \in SchemaTablesOf(n - 1), node \in SchemaNodes(n)}

SchemaTables == SchemaTablesOf(MaxSchemaNodes)

\* The depths generateSchemaTemplate is entered with: the one responses.ts
\* passes, and the ones around the deepest heading.
StartDepths == {1, MaxHeadingDepth, MaxHeadingDepth + 1}

InitTemplate ==
  /\ schemaCall \in {Some([schemas |-> g, state |-> [varname |-> "body", depth |-> d]]) :
                       g \in SchemaTables, d \in StartDepths}
  /\ templates = <<>>
  /\ NoFrontCall
  /\ chain = <<PathItemNode(<<"get">>, None, None)>>
  /\ loopTo = 0
  /\ opNode = OperationNode(None, None, None)
  /\ apiServers = None
  /\ options = NoOptions
  /\ NoParamsCall /\ NoOperationsCall /\ NoRequestCall /\ NoNameCall

\* A call generateSchemaTemplate(context, state, schema).
CallGenerateSchemaTemplate ==
  /\ templates = <<>>
  /\ IsDefined(schemaCall)
  /\ LET call == Value(schemaCall)
     IN templates' =
          TemplateCalls(call.schemas, call.state, call.schemas[1])
          \o <<[fn |-> "generateSchemaTemplate", state |-> call.state,
                template |-> GenerateSchemaTemplate(call.schemas, call.state,
                                                    call.schemas[1])]>>
  /\ UNCHANGED <<docVars, frontVars, nameVars, walkVars, paramVars, opsVars, reqVars, schemaCall>>

NextTemplate == CallGenerateSchemaTemplate

SpecTemplate == InitTemplate /\ [][NextTemplate]_vars

----------------------------------------------------------------------------
(* The request template synthesizer (handle/request.ts).                   *)
(*                                                                         *)
(* A record of the program (query, headers, paramIndex, properties) is the *)
(* list of its entries <<key, value>> in insertion order. An index into    *)
(* schemaRoots counts from 0, as in the program.                           *)

HasKey(entries, key) == \E i \in 1..Len(entries) : entries[i][1] = key
Keys(entries) == [i \in 1..Len(entries) |-> entries[i][1]]
Lookup(entries, key) ==
  entries[CHOOSE i \in 1..Len(entries) : entries[i][1] = key][2]
At(list, index) == list[index + 1]

\* x ??= {}; x[name] = value and x ??= []; x.push(value) on an optional.
PutEntry(record, key, value) ==
  Some(SetProperty(IF IsDefined(record) THEN Value(record) ELSE <<>>, key, value))
Push(list, value) == Some(Append(IF IsDefined(list) THEN Value(list) ELSE <<>>, value))

\* A server object, a media type of a request body, a request body.
ServerObject(url, variables) == [url |-> url, variables |-> variables]
ContentType(mediaType, schema) == [mediaType |-> mediaType, schema |-> schema]
RequestBody(description, required, content) ==
  [description |-> description, required |-> required, content |-> content]

\* { ...schema, description }
WithDescription(schema, description) == [schema EXCEPT !.description = description]

\* The local variables of generateApiHandleRequest before its first loop.
NoLocals ==
  [required |-> None, query |-> None, headers |-> None, cookies |-> None,
   body |-> None, paramIndex |-> <<>>, schemaRoots |-> <<>>, bodyKey |-> Undefined,
   writes |-> <<>>]

\* paramIndex[name] = schemaRoots.length; schemaRoots.push(schema).
RecordRoot(locals, name, schema) ==
  [locals EXCEPT !.paramIndex = SetProperty(@, name, Len(locals.schemaRoots)),
                 !.schemaRoots = Append(@, schema)]

\* A plausible slip: schema.description = description, a write to the schema
\* node of the document that the owner (parameter, content type) holds.
OverrideDescriptionInPlace(owner, schema, description) ==
  [schema |-> WithDescription(schema, description),
   writes |-> <<[owner |-> owner, description |-> description]>>]

\* schema = {...schema, description}: the local variable is bound to a new
\* object and no node of the document is written.
OverrideDescription(owner, schema, description) ==
  [schema |-> WithDescription(schema, description), writes |-> <<>>]

\* One turn of the loop over operation.allParameters.
ExtractParameter(locals, parameter) ==
  IF ~IsDefined(parameter.schema) THEN locals
  ELSE LET override ==
             IF parameter.description # Undefined
               THEN OverrideDescription(parameter, Value(parameter.schema),
                                        parameter.description)
               ELSE [schema |-> Value(parameter.schema), writes |-> <<>>]
           parameterSchema == override.schema
           template == [ref |-> parameter.name]
           placed ==
             [locals EXCEPT
                !.writes = @ \o override.writes,
                !.query = IF parameter.in = "query"
                            THEN PutEntry(@, parameter.name, template) ELSE @,
                !.headers = IF parameter.in = "header"
                              THEN PutEntry(@, parameter.name, template) ELSE @,
                !.cookies = IF parameter.in = "cookie"
                              THEN PutEntry(@, parameter.name, template) ELSE @,
                !.required = IF parameter.required THEN Push(@, parameter.name) ELSE @]
       IN RecordRoot(placed, parameter.name, parameterSchema)

\* The loop over operation.allParameters.
RECURSIVE ExtractParameters(_, _)
ExtractParameters(locals, parameters) ==
  IF parameters = <<>> THEN locals
  ELSE ExtractParameters(ExtractParameter(locals, Head(parameters)), Tail(parameters))

\* A plausible slip: the body is always stored under "body".
FixedBodyKey(paramIndex, bodyKey, index) == "body"

\* The loop that chooses the key of the body slot.
RECURSIVE ChooseBodyKey(_, _, _)
ChooseBodyKey(paramIndex, bodyKey, index) ==
  IF HasKey(paramIndex, bodyKey)
  THEN ChooseBodyKey(paramIndex, "body" \o ToString(index), index + 1)
  ELSE bodyKey

\* The encoding of a media type the synthesizer supports, else Undefined.
BodyEncoding(mediaType) ==
  CASE mediaType = "application/json" -> "json"
    [] mediaType = "application/x-www-form-urlencoded" -> "urlencoded"
    [] mediaType = "multipart/form-data" -> "multipart"
    [] OTHER -> Undefined

\* A plausible slip: the key of a required body is never pushed.
BodyNeverRequired(locals, requestBody, bodyKey) == locals.required

\* if (requestBody.required === true) required.push(bodyKey), once a
\* content type is selected.
BodyRequired(locals, requestBody, bodyKey) ==
  IF requestBody.required THEN Push(locals.required, bodyKey) ELSE locals.required

\* The body of the loop for a content type that is selected.
SelectContent(locals, requestBody, bodyKey, contentType) ==
  LET override ==
        IF requestBody.description # Undefined
          THEN OverrideDescription(contentType, Value(contentType.schema),
                                   requestBody.description)
          ELSE [schema |-> Value(contentType.schema), writes |-> <<>>]
      contentSchema == override.schema
  IN RecordRoot(
       [locals EXCEPT
          !.writes = @ \o override.writes,
          !.body = Some([ref |-> bodyKey, encode |-> BodyEncoding(contentType.mediaType)]),
          !.required = BodyRequired(locals, requestBody, bodyKey)],
       bodyKey, contentSchema)

\* A plausible slip: no break, so the loop goes on after the content type it
\* selected and the last one decides.
RECURSIVE ExtractContentNoBreak(_, _, _, _)
ExtractContentNoBreak(locals, requestBody, bodyKey, content) ==
  IF content = <<>> THEN locals
  ELSE IF ~IsDefined(Head(content).schema)
    THEN ExtractContentNoBreak(locals, requestBody, bodyKey, Tail(content))
  ELSE IF BodyEncoding(Head(content).mediaType) = Undefined
    THEN ExtractContentNoBreak(locals, requestBody, bodyKey, Tail(content))
  ELSE ExtractContentNoBreak(SelectContent(locals, requestBody, bodyKey, Head(content)),
                             requestBody, bodyKey, Tail(content))

\* The loop over the content types of the request body.
RECURSIVE ExtractContent(_, _, _, _)
ExtractContent(locals, requestBody, bodyKey, content) ==
  IF content = <<>> THEN locals
  ELSE IF ~IsDefined(Head(content).schema)
    THEN ExtractContent(locals, requestBody, bodyKey, Tail(content))
  ELSE IF BodyEncoding(Head(content).mediaType) = Undefined
    THEN ExtractContent(locals, requestBody, bodyKey, Tail(content))
  ELSE SelectContent(locals, requestBody, bodyKey, Head(content))

\* The request body part of generateApiHandleRequest.
ExtractRequestBody(locals, op) ==
  IF ~IsDefined(op.requestBody) THEN locals
  ELSE LET bodyKey == ChooseBodyKey(locals.paramIndex, "body", 1)
       IN ExtractContent([locals EXCEPT !.bodyKey = bodyKey], Value(op.requestBody),
                         bodyKey, Value(op.requestBody).content)

\* The schemas under #/components/schemas of the documents explored: a
\* leaf, a schema that refers to the leaf, a schema that refers to itself.
ComponentsUri == "#/components/schemas"
DefsUri == "#/$defs"
Reference(uri, name) == [uri |-> uri, name |-> name]
ComponentNames == <<"Id", "User", "Node">>
Component(name) ==
  CASE name = "Id" -> [type |-> "integer", description |-> Undefined, ref |-> None]
    [] name = "User" -> [type |-> "object", description |-> Undefined,
                         ref |-> Some(Reference(ComponentsUri, "Id"))]
    [] name = "Node" -> [type |-> "object", description |-> Undefined,
                         ref |-> Some(Reference(ComponentsUri, "Node"))]

\* The references of a schema: the $ref it holds, if it holds one.
RefsOf(schema) ==
  IF "ref" \in DOMAIN schema /\ IsDefined(schema.ref) THEN {Value(schema.ref)} ELSE {}

\* The names of the components reachable from a set of names.
RECURSIVE ReachableComponents(_)
ReachableComponents(names) ==
  LET more == names \cup {r.name : r \in UNION {RefsOf(Component(n)) : n \in names}}
  IN IF more = names THEN names ELSE ReachableComponents(more)

\* A schema with its reference rewritten to the target defsUri.
Rewritten(schema) ==
  IF RefsOf(schema) = {} THEN schema
  ELSE [schema EXCEPT !.ref = Some(Reference(DefsUri, Value(schema.ref).name))]

\* treeShakeReferences(context, {roots, defsUri: "#/$defs"}): as many
\* rewritten roots as submitted, in the same order, and the definitions
\* reachable from them, if any, with their references rewritten too.
TreeShakeReferences(roots) ==
  LET reachable == ReachableComponents(
                     {r.name : r \in UNION {RefsOf(roots[i]) : i \in 1..Len(roots)}})
      names == SelectSeq(ComponentNames, LAMBDA n : n \in reachable)
  IN [roots |-> [i \in 1..Len(roots) |-> [shaken |-> Rewritten(roots[i])]],
      defs |-> IF names = <<>> THEN None
               ELSE Some([i \in 1..Len(names) |->
                            <<names[i], Rewritten(Component(names[i]))>>])]

\* The loop that builds the properties of the parameters schema.
RECURSIVE BuildProperties(_, _, _)
BuildProperties(properties, entries, roots) ==
  IF entries = <<>> THEN properties
  ELSE BuildProperties(PutEntry(properties, Head(entries)[1], At(roots, Head(entries)[2])),
                       Tail(entries), roots)

\* ApiPathItem.servers: the node's own list, else the resolved target's.
RECURSIVE PathItemServersFrom(_, _)
PathItemServersFrom(ch, i) ==
  IF i > Len(ch) THEN None
  ELSE IF IsDefined(ch[i].servers) THEN ch[i].servers
  ELSE PathItemServersFrom(ch, i + 1)

PathItemServers(ch) == PathItemServersFrom(ch, 1)

\* A plausible slip: the API's servers are asked before the path item's.
OperationServersApiFirst(op, ch, api) ==
  IF IsDefined(op.servers) THEN op.servers
  ELSE IF IsDefined(api) THEN api
  ELSE PathItemServers(ch)

\* operation.servers ?? operation.pathItem.servers ?? operation.api.servers
OperationServers(op, ch, api) ==
  IF IsDefined(op.servers) THEN op.servers
  ELSE IF IsDefined(PathItemServers(ch)) THEN PathItemServers(ch)
  ELSE api

\* A plausible slip: without servers the request goes to the server "/".
SelectDefaultServer(opts, op, ch, api) ==
  IF IsDefined(opts.server) THEN opts.server
  ELSE LET servers == OperationServers(op, ch, api)
       IN IF servers = None \/ Len(Value(servers)) = 0
            THEN Some(ServerObject("/", None))
            ELSE Some(Value(servers)[1])

\* The selection of the server: the server, or None where the code throws.
SelectServer(opts, op, ch, api) ==
  IF IsDefined(opts.server) THEN opts.server
  ELSE LET servers == OperationServers(op, ch, api)
       IN IF servers = None \/ Len(Value(servers)) = 0
            THEN None
            ELSE Some(Value(servers)[1])

\* expandUriTemplate(server.url, varname => server.variables[varname]?.default)
ExpandUriTemplate(url, variables) ==
  CASE url = "https://api.example/{version}" -> "https://api.example/" \o variables
    [] OTHER -> url

\* The expansion of the server URL.
ServerUrl(server) ==
  IF IsDefined(server.variables)
    THEN ExpandUriTemplate(server.url, Value(server.variables))
    ELSE server.url

\* The names joined by commas.
RECURSIVE JoinNames(_, _)
JoinNames(joined, names) ==
  IF names = <<>> THEN joined
  ELSE JoinNames((IF joined # "" THEN joined \o "," ELSE joined) \o Head(names),
                 Tail(names))

\* The URLs of these documents that have a query component.
UrlsWithQuery == {"https://option.example/?env=test"}

\* url.includes("?"), the url being the list of its pieces.
IncludesQuery(url) == \E i \in 1..Len(url) : url[i] \in UrlsWithQuery

\* The URL template: the server URL, the path, the query expansion.
RequestUrl(server, path, query) ==
  LET url == <<ServerUrl(server), path>>
  IN IF IsDefined(query)
       THEN url \o <<(IF IncludesQuery(url) THEN "{&" ELSE "{?")
                       \o JoinNames("", Keys(Value(query))) \o "}">>
       ELSE url

\* key.toUpperCase()
ToUpperCase(key) ==
  CASE key = "get" -> "GET" [] key = "put" -> "PUT" [] key = "post" -> "POST"
    [] key = "delete" -> "DELETE" [] key = "options" -> "OPTIONS"
    [] key = "head" -> "HEAD" [] key = "patch" -> "PATCH" [] key = "trace" -> "TRACE"

NoServersError == "No servers defined for operation"

\* A plausible slip: the shared definitions are left out of the schema.
ParametersSchemaNoDefs(properties, required, defs) ==
  [type |-> "object", properties |-> properties, required |-> required, defs |-> None]

\* The parameters schema: {type: "object", properties?, required?, $defs?}.
ParametersSchema(properties, required, defs) ==
  [type |-> "object", properties |-> properties, required |-> required, defs |-> defs]

\* A schema holder (parameter, content type) after the writes to its schema.
RECURSIVE Written(_, _)
Written(holder, writes) ==
  IF writes = <<>> THEN holder
  ELSE Written(IF Head(writes).owner = holder
                 THEN [holder EXCEPT
                         !.schema = Some(WithDescription(Value(@), Head(writes).description))]
                 ELSE holder,
               Tail(writes))
WrittenAll(holders, writes) ==
  IF IsDefined(holders)
  THEN Some([i \in 1..Len(Value(holders)) |-> Written(Value(holders)[i], writes)])
  ELSE None

\* The operation node and the path items as a call leaves them.
DocumentAfter(op, ch, writes) ==
  [op |-> [op EXCEPT
             !.parameters = WrittenAll(@, writes),
             !.requestBody =
               IF IsDefined(@)
                 THEN Some([Value(@) EXCEPT
                              !.content = Value(WrittenAll(Some(@), writes))])
                 ELSE @],
   chain |-> [i \in 1..Len(ch) |->
                [ch[i] EXCEPT !.parameters = WrittenAll(@, writes)]]]

\* generateApiHandleRequest(operation, options): what it returns (returned)
\* or throws (error), with the local variables it ended with and the
\* document as it leaves it.
GenerateApiHandleRequest(key, op, ch, api, path, opts) ==
  LET extracted == ExtractRequestBody(ExtractParameters(NoLocals, AllParameters(op, ch)), op)
      result == TreeShakeReferences(extracted.schemaRoots)
      properties == BuildProperties(None, extracted.paramIndex, result.roots)
      server == SelectServer(opts, op, ch, api)
  IN IF server = None
     THEN [error |-> NoServersError, returned |-> None, server |-> None,
           locals |-> extracted, document |-> DocumentAfter(op, ch, extracted.writes)]
     ELSE [error |-> Undefined,
           returned |->
             Some([parameters |-> ParametersSchema(properties, extracted.required,
                                                   result.defs),
                   request |-> [method |-> ToUpperCase(key),
                                url |-> RequestUrl(Value(server), path, extracted.query),
                                headers |-> extracted.headers,
                                body |-> extracted.body]]),
           server |-> server,
           locals |-> extracted, document |-> DocumentAfter(op, ch, extracted.writes)]

----------------------------------------------------------------------------
(* generateApiHandleRequest, one action for the call. Three sets of        *)
(* documents are explored: rich in servers (SpecRequestServers), rich in   *)
(* request bodies (SpecRequestBody), rich in parameters (SpecRequest).     *)

\* The path template of the path item, and the method key of the operation.
PathTemplate == "/users/{id}"
OperationKey(ch) == ch[1].keys[1]

\* The calls of generateApiHandleRequest explored on one operation.
MaxCalls == 2

\* A call generateApiHandleRequest(operation, options), the first or a later
\* one on the same operation.
CallGenerateApiHandleRequest ==
  /\ Len(earlier) + (IF IsDefined(request) THEN 1 ELSE 0) < MaxCalls
  /\ LET call == GenerateApiHandleRequest(OperationKey(chain), opNode, chain,
                                          apiServers, PathTemplate, options)
     IN /\ request' = Some(call)
        /\ earlier' = IF IsDefined(request) THEN Append(earlier, Value(request))
                       ELSE earlier
        /\ opNode' = call.document.op
        /\ chain' = call.document.chain
  /\ UNCHANGED <<frontVars, loopTo, apiServers, options, nameVars, walkVars, paramVars, opsVars, tplVars>>

NextRequest == CallGenerateApiHandleRequest

\* The schema of a parameter declared at a location.
ParameterSchema(location) ==
  [type |-> CASE location = "query" -> "string" [] location = "header" -> "integer"
              [] location = "path" -> "number" [] OTHER -> "boolean",
   description |-> Undefined]

\* The server each level of these documents may declare, and one any level may.
LevelServer(level) ==
  CASE level = "operation" -> ServerObject("https://op.example", None)
    [] level = "pathItem" -> ServerObject("https://path.example", None)
    [] level = "ref" -> ServerObject("https://ref.example", None)
    [] level = "api" -> ServerObject("https://api.example/{version}", Some("v1"))
    [] level = "option" -> ServerObject("https://option.example/?env=test", None)
SharedServer == ServerObject("https://shared.example", None)

\* The servers field of a level: undefined, empty, or a list.
ServerLists(level) == OptSeqsUpTo({LevelServer(level), SharedServer}, MaxServers)

InitRequestServers ==
  /\ opNode \in {OperationNode(p, sv, None) :
                   p \in {None, Some(<<Parameter("operation", "q", "query", FALSE,
                                                 Some(ParameterSchema("query")),
                                                 Undefined)>>)},
                   sv \in ServerLists("operation")}
  /\ NoFrontCall
  /\ chain \in {<<PathItemNode(<<"get">>, None, sv)>> : sv \in ServerLists("pathItem")}
          \cup {<<PathItemNode(<<"get">>, None, sv), PathItemNode(<<>>, None, tv)>> :
                  sv \in ServerLists("pathItem"), tv \in ServerLists("ref")}
  /\ loopTo = 0
  /\ apiServers \in ServerLists("api")
  /\ options \in {[server |-> sv] :
                    sv \in {None, Some(LevelServer("option")), Some(SharedServer)}}
  /\ NoParamsCall /\ NoOperationsCall /\ NoRequestCall /\ NoTemplateCall /\ NoNameCall

SpecRequestServers == InitRequestServers /\ [][NextRequest]_vars

\* The servers fields of the document, highest precedence first: the
\* operation's, the path item's, those of the path items of its $ref chain,
\* the API's.
ServerLevels == <<opNode.servers>> \o [i \in 1..Len(chain) |-> chain[i].servers]
                  \o <<apiServers>>

\* A level defines a server when its servers field is a list that is not empty.
DefinesServer(servers) == IsDefined(servers) /\ Value(servers) # <<>>

NoServerAnywhere == \A i \in 1..Len(ServerLevels) : ~DefinesServer(ServerLevels[i])

\* The first server of the highest level that defines one.
FirstServerByPrecedence ==
  LET i == CHOOSE i \in 1..Len(ServerLevels) :
             /\ DefinesServer(ServerLevels[i])
             /\ \A j \in 1..(i - 1) : ~DefinesServer(ServerLevels[j])
  IN Value(ServerLevels[i])[1]

C5_FailsOnlyWithoutServers ==
  (IsDefined(request) /\ Value(request).error = NoServersError)
    => (options.server = None /\ NoServerAnywhere)

\* C6: the URL is built from the server option if given, else from the first
\* server of the highest level (operation, path item, $ref target, API) that
\* defines one; with the option the call never fails for want of a server.
C6_ServerByPrecedence ==
  IsDefined(request) =>
    /\ IsDefined(options.server) => Value(request).error # NoServersError
    /\ IsDefined(Value(request).returned) =>
         LET expected == IF IsDefined(options.server) THEN Value(options.server)
                         ELSE FirstServerByPrecedence
         IN /\ Value(request).server = Some(expected)
            /\ Value(Value(request).returned).request.url[1] = ServerUrl(expected)

\* The call returned a URL built from the server of the $ref target of the
\* path item, the API defining another server.
C6_Witness ==
  /\ IsDefined(request) /\ IsDefined(Value(request).returned)
  /\ options.server = None /\ opNode.servers = None
  /\ Len(chain) = 2 /\ chain[1].servers = None
  /\ chain[2].servers = Some(<<LevelServer("ref")>>)
  /\ apiServers = Some(<<LevelServer("api")>>)
  /\ Value(Value(request).returned).request.url[1] = "https://ref.example"

----------------------------------------------------------------------------
(* Documents rich in request bodies.                                       *)

\* The media types and the content types of the request bodies explored; the
\* content of a request body is keyed by media type, so no media type occurs
\* twice in it.
MediaTypes == {"application/json", "application/x-www-form-urlencoded",
               "multipart/form-data", "text/plain"}
BodySchema == [type |-> "object", description |-> Undefined]
ContentTypes == {ContentType(m, sc) : m \in MediaTypes, sc \in {None, Some(BodySchema)}}
ContentLists ==
  {c \in SeqsUpTo(ContentTypes, MaxContent) :
     \A i, j \in 1..Len(c) : c[i].mediaType = c[j].mediaType => i = j}
RequestBodies ==
  {RequestBody(d, r, c) : d \in {Undefined, "The payload"}, r \in BOOLEAN,
                          c \in ContentLists}

\* A parameter of an operation with the schema of its location.
OperationParameter(name, location, required) ==
  Parameter("operation", name, location, required,
            Some(ParameterSchema(location)), Undefined)

InitRequestBody ==
  /\ opNode \in {OperationNode(p, None, b) :
                   p \in {None,
                          Some(<<OperationParameter("body", "query", FALSE)>>),
                          Some(<<OperationParameter("body", "query", TRUE),
                                 OperationParameter("body1", "header", TRUE)>>)},
                   b \in {None} \cup {Some(rb) : rb \in RequestBodies}}
  /\ NoFrontCall
  /\ chain = <<PathItemNode(<<"post">>, None, None)>>
  /\ loopTo = 0
  /\ apiServers \in {None, Some(<<LevelServer("api")>>)}
  /\ options = NoOptions
  /\ NoParamsCall /\ NoOperationsCall /\ NoRequestCall /\ NoTemplateCall /\ NoNameCall

SpecRequestBody == InitRequestBody /\ [][NextRequest]_vars

\* The encodings of the three media types of a body.
EncodingOf ==
  [m \in {"application/json", "application/x-www-form-urlencoded",
          "multipart/form-data"} |->
     CASE m = "application/json" -> "json"
       [] m = "application/x-www-form-urlencoded" -> "urlencoded"
       [] OTHER -> "multipart"]

\* The positions of the content types with a schema and one of the three
\* media types.
UsableContent(content) ==
  {i \in 1..Len(content) :
     IsDefined(content[i].schema) /\ content[i].mediaType \in DOMAIN EncodingOf}

\* The least position of a set of positions that is not empty.
Least(positions) == CHOOSE i \in positions : \A j \in positions : i <= j

\* C7: the body template encodes as the first content type in document order
\* that has a schema and is json, urlencoded or multipart; the types before
\* it are skipped and those after it do not matter; without such a type the
\* request has no body template.
C7_FirstUsableContentType ==
  (IsDefined(request) /\ IsDefined(Value(request).returned)
     /\ IsDefined(opNode.requestBody)) =>
    LET content == Value(opNode.requestBody).content
        body == Value(Value(request).returned).request.body
    IN IF UsableContent(content) = {} THEN body = None
       ELSE body = Some([ref |-> Value(request).locals.bodyKey,
                         encode |-> EncodingOf[content[Least(UsableContent(content))].mediaType]])

\* The body [text/plain, application/json] was encoded as json.
C7_Witness ==
  /\ IsDefined(request) /\ IsDefined(Value(request).returned)
  /\ IsDefined(opNode.requestBody)
  /\ Value(opNode.requestBody).content =
       <<ContentType("text/plain", Some(BodySchema)),
         ContentType("application/json", Some(BodySchema))>>
  /\ Value(Value(request).returned).request.body = Some([ref |-> "body", encode |-> "json"])

\* The required list of the parameters schema that was returned.
ReturnedRequired ==
  LET required == Value(Value(request).returned).parameters.required
  IN IF IsDefined(required) THEN Range(Value(required)) ELSE {}

\* C9 as stated: whenever the request body is required, the key of the body
\* slot is in parameters.required.
C9_RequiredBodyIsRequired ==
  (IsDefined(request) /\ IsDefined(Value(request).returned)
     /\ IsDefined(opNode.requestBody) /\ Value(opNode.requestBody).required)
    => Value(request).locals.bodyKey \in ReturnedRequired

\* C9 amended: when the request body is required and one of its content
\* types is selected (a schema and a supported media type), the key of the
\* body slot is in parameters.required; when none is selected the key is not
\* in it.
C9_RequiredSelectedBodyIsRequired ==
  (IsDefined(request) /\ IsDefined(Value(request).returned)
     /\ IsDefined(opNode.requestBody) /\ Value(opNode.requestBody).required)
    => (Value(request).locals.bodyKey \in ReturnedRequired
          <=> UsableContent(Value(opNode.requestBody).content) # {})

\* A required body with a selected content type, after two required
\* parameters: the key body2 was added to the required list.
C9_Witness ==
  /\ IsDefined(request) /\ IsDefined(Value(request).returned)
  /\ IsDefined(opNode.requestBody) /\ Value(opNode.requestBody).required
  /\ UsableContent(Value(opNode.requestBody).content) # {}
  /\ Value(Value(request).returned).parameters.required = Some(<<"body", "body1", "body2">>)

----------------------------------------------------------------------------
(* Documents rich in parameters.                                           *)

ParameterNames == {"id", "body", "body1"}
ParameterLocations == {"query", "header", "path", "cookie"}
RequestParameters ==
  {OperationParameter(n, l, r) :
     n \in ParameterNames, l \in ParameterLocations, r \in BOOLEAN}
  \cup {Parameter("operation", n, "query", TRUE, None, Undefined) : n \in ParameterNames}

InitRequest ==
  /\ opNode \in {OperationNode(p, None, b) :
                   p \in OptSeqsUpTo(RequestParameters, MaxParams),
                   b \in {None,
                          Some(RequestBody(Undefined, TRUE,
                                 <<ContentType("application/json", Some(BodySchema))>>)),
                          Some(RequestBody(Undefined, FALSE,
                                 <<ContentType("text/plain", Some(BodySchema))>>))}}
  /\ NoFrontCall
  /\ chain \in {<<PathItemNode(<<"put">>, p, None)>> :
                  p \in {None, Some(<<Parameter("pathItem", "id", "path", TRUE,
                                                Some(ParameterSchema("path")),
                                                "The identifier")>>)}}
  /\ loopTo = 0
  /\ apiServers = Some(<<LevelServer("api")>>)
  /\ options = NoOptions
  /\ NoParamsCall /\ NoOperationsCall /\ NoRequestCall /\ NoTemplateCall /\ NoNameCall

SpecRequest == InitRequest /\ [][NextRequest]_vars

\* The parameters of the operation that are placed in the parameters schema,
\* in the order of allParameters, and their names.
PlacedParameters ==
  SelectSeq(AllParameters(opNode, chain), LAMBDA p : IsDefined(p.schema))
PlacedNames == {PlacedParameters[i].name : i \in 1..Len(PlacedParameters)}

\* body, body1, body2, ...
BodyKeyCandidate(k) == IF k = 0 THEN "body" ELSE "body" \o ToString(k)

\* A content type of the request body was selected.
BodySelected ==
  IsDefined(opNode.requestBody) /\ UsableContent(Value(opNode.requestBody).content) # {}

\* The properties of the parameters schema that was returned.
ReturnedProperties ==
  LET properties == Value(Value(request).returned).parameters.properties
  IN IF IsDefined(properties) THEN Value(properties) ELSE <<>>

\* C8: the key of the body slot is the first of body, body1, body2, ... that
\* is not the name of a placed parameter; the body property holds the body's
\* root and every placed parameter keeps a property that holds a parameter's
\* root.
C8_BodyKeyAvoidsParameters ==
  (IsDefined(request) /\ IsDefined(opNode.requestBody)) =>
    LET locals == Value(request).locals
        bodyIndex == Len(locals.schemaRoots) - 1
    IN /\ \E k \in 0..Cardinality(PlacedNames) :
            /\ locals.bodyKey = BodyKeyCandidate(k)
            /\ \A j \in 0..(k - 1) : BodyKeyCandidate(j) \in PlacedNames
       /\ locals.bodyKey \notin PlacedNames
       /\ (BodySelected /\ IsDefined(Value(request).returned)) =>
            /\ HasKey(ReturnedProperties, locals.bodyKey)
            /\ Lookup(ReturnedProperties, locals.bodyKey).shaken.type = "object"
            /\ Lookup(locals.paramIndex, locals.bodyKey) = bodyIndex
            /\ \A n \in PlacedNames :
                 /\ HasKey(ReturnedProperties, n)
                 /\ Lookup(ReturnedProperties, n).shaken.type # "object"
                 /\ Lookup(locals.paramIndex, n) # bodyIndex

\* Parameters named body and body1 are placed and the body went to body2.
C8_Witness ==
  /\ IsDefined(request) /\ IsDefined(Value(request).returned)
  /\ BodySelected
  /\ {"body", "body1"} \subseteq PlacedNames
  /\ Value(request).locals.bodyKey = "body2"
  /\ Keys(ReturnedProperties) = <<"body", "body1", "body2">>

\* The names under which the roots were submitted, in the order of submission.
SubmittedNames ==
  [i \in 1..Len(PlacedParameters) |-> PlacedParameters[i].name]
    \o (IF BodySelected THEN <<Value(request).locals.bodyKey>> ELSE <<>>)

\* C10: as many properties as roots submitted to the tree-shaker, and the
\* property under the name of each submitter is the rewritten root at the
\* index of its submission.
C10_EveryRootHasItsProperty ==
  (IsDefined(request) /\ IsDefined(Value(request).returned)) =>
    LET submitted == Value(request).locals.schemaRoots
        roots == TreeShakeReferences(submitted).roots
    IN /\ Len(submitted) = Len(SubmittedNames)
       /\ Len(ReturnedProperties) = Len(submitted)
       /\ \A i \in 1..Len(submitted) :
            /\ HasKey(ReturnedProperties, SubmittedNames[i])
            /\ Lookup(ReturnedProperties, SubmittedNames[i]) = roots[i]

----------------------------------------------------------------------------
(* Documents whose schemas hold references into #/components/schemas.      *)

\* A schema without a reference, and a schema that refers to a component.
PlainSchema(type) == [type |-> type, description |-> Undefined, ref |-> None]
ReferenceSchema(name) ==
  [type |-> Undefined, description |-> Undefined,
   ref |-> Some(Reference(ComponentsUri, name))]
ReferenceSchemas ==
  {PlainSchema("string")} \cup {ReferenceSchema(ComponentNames[i]) : i \in 1..Len(ComponentNames)}

ReferenceParameters ==
  {Parameter("operation", n, l, TRUE, Some(sc), Undefined) :
     n \in {"id", "q"}, l \in {"query", "path"}, sc \in ReferenceSchemas}

InitRequestRefs ==
  /\ opNode \in {OperationNode(p, None, b) :
                   p \in OptSeqsUpTo(ReferenceParameters, MaxParams),
                   b \in {None} \cup
                         {Some(RequestBody("The payload", TRUE,
                                 <<ContentType("application/json", Some(sc))>>)) :
                            sc \in ReferenceSchemas}}
  /\ NoFrontCall
  /\ chain = <<PathItemNode(<<"patch">>, None, None)>>
  /\ loopTo = 0
  /\ apiServers = Some(<<LevelServer("api")>>)
  /\ options = NoOptions
  /\ NoParamsCall /\ NoOperationsCall /\ NoRequestCall /\ NoTemplateCall /\ NoNameCall

SpecRequestRefs == InitRequestRefs /\ [][NextRequest]_vars

\* The $defs of the parameters schema that was returned.
ReturnedDefs ==
  LET defs == Value(Value(request).returned).parameters.defs
  IN IF IsDefined(defs) THEN Value(defs) ELSE <<>>

\* Every reference of a schema points into #/$defs, at a definition that the
\* returned parameters schema holds.
RefsAreLocal(schema) ==
  \A r \in RefsOf(schema) : r.uri = DefsUri /\ HasKey(ReturnedDefs, r.name)

\* C11: with a tree-shaker that keeps the number and order of the roots and
\* rewrites references to #/$defs, every reference in parameters.properties
\* and in parameters.$defs points into #/$defs, at a definition present in
\* parameters.$defs.
C11_HandleIsSelfContained ==
  (IsDefined(request) /\ IsDefined(Value(request).returned)) =>
    /\ \A i \in 1..Len(ReturnedProperties) : RefsAreLocal(ReturnedProperties[i][2].shaken)
    /\ \A i \in 1..Len(ReturnedDefs) : RefsAreLocal(ReturnedDefs[i][2])

\* A parameter that refers to User, which refers to Id, and a body that
\* refers to Node: the three definitions are in $defs.
C11_Witness ==
  /\ IsDefined(request) /\ IsDefined(Value(request).returned)
  /\ \E i \in 1..Len(ReturnedProperties) :
       RefsOf(ReturnedProperties[i][2].shaken) = {Reference(DefsUri, "User")}
  /\ HasKey(ReturnedProperties, "body")
  /\ RefsOf(Lookup(ReturnedProperties, "body").shaken) = {Reference(DefsUri, "Node")}
  /\ Keys(ReturnedDefs) = <<"Id", "User", "Node">>

----------------------------------------------------------------------------
(* The handle name (handle/generate.ts). A string is the sequence of its   *)
(* characters (UTF-16 code units), each a one-character string.            *)

MaxNameLen == 3

LowerCaseLetters ==
  <<"a", "b", "c", "d", "e", "f", "g", "h", "i", "j", "k", "l", "m",
    "n", "o", "p", "q", "r", "s", "t", "u", "v", "w", "x", "y", "z">>
UpperCaseLetters ==
  <<"A", "B", "C", "D", "E", "F", "G", "H", "I", "J", "K", "L", "M",
    "N", "O", "P", "Q", "R", "S", "T", "U", "V", "W", "X", "Y", "Z">>
Digits == <<"0", "1", "2", "3", "4", "5", "6", "7", "8", "9">>

\* The characters of the upper-cased method of an operation.
Characters(method) ==
  CASE method = "GET" -> <<"G", "E", "T">>
    [] method = "PUT" -> <<"P", "U", "T">>
    [] method = "POST" -> <<"P", "O", "S", "T">>
    [] method = "DELETE" -> <<"D", "E", "L", "E", "T", "E">>
    [] method = "OPTIONS" -> <<"O", "P", "T", "I", "O", "N", "S">>
    [] method = "HEAD" -> <<"H", "E", "A", "D">>
    [] method = "PATCH" -> <<"P", "A", "T", "C", "H">>
    [] method = "TRACE" -> <<"T", "R", "A", "C", "E">>

\* The characters that /[^a-zA-Z0-9_-]/ does not match.
NameClass ==
  Range(LowerCaseLetters) \cup Range(UpperCaseLetters) \cup Range(Digits) \cup {"_", "-"}

\* A plausible slip: the class \W, which matches the hyphen too.
ReplaceNonWord(name) ==
  [i \in 1..Len(name) |-> IF name[i] \in NameClass \ {"-"} THEN name[i] ELSE "_"]

\* name.replace(/[^a-zA-Z0-9_-]/g, "_")
ReplaceOutsideNameClass(name) ==
  [i \in 1..Len(name) |-> IF name[i] \in NameClass THEN name[i] ELSE "_"]

\* The name of the handle of an operation.
HandleName(operationId, key, path) ==
  ReplaceOutsideNameClass(
    IF IsDefined(operationId) THEN Value(operationId)
    ELSE Characters(ToUpperCase(key)) \o <<" ">> \o path)

\* The characters the paths and operation ids explored are made of.
PathCharacters == {"/", "{", "}", "u", "Z", "7", "-", "_", ".", "~"}
UsersIdPath == <<"/", "u", "s", "e", "r", "s", "/", "{", "i", "d", "}">>

InitName ==
  /\ nameCall \in
       {Some([operationId |-> None, key |-> k, path |-> pa]) :
          k \in OPERATIONS, pa \in SeqsUpTo(PathCharacters, MaxNameLen) \cup {UsersIdPath}}
       \cup {Some([operationId |-> Some(id), key |-> "get", path |-> UsersIdPath]) :
               id \in SeqsUpTo(PathCharacters \cup {" ", "$"}, MaxNameLen)}
  /\ handleName = None /\ stack = <<>> /\ phase = "idle" /\ turns = 0
  /\ NoFrontCall
  /\ chain = <<PathItemNode(<<"get">>, None, None)>>
  /\ loopTo = 0
  /\ opNode = OperationNode(None, None, None)
  /\ apiServers = None
  /\ options = NoOptions
  /\ NoParamsCall /\ NoOperationsCall /\ NoRequestCall /\ NoTemplateCall

\* The first statements of generateApiHandle(operation): the name.
ComputeHandleName ==
  /\ IsDefined(nameCall) /\ handleName = None
  /\ handleName' = Some(HandleName(Value(nameCall).operationId, Value(nameCall).key,
                                   Value(nameCall).path))
  /\ UNCHANGED <<docVars, frontVars, walkVars, paramVars, opsVars, reqVars, tplVars, nameCall>>

NextName == ComputeHandleName

SpecName == InitName /\ [][NextName]_vars

\* The characters a..z, A..Z, 0..9, the underscore and the hyphen.
AllowedInNames ==
  {"a", "b", "c", "d", "e", "f", "g", "h", "i", "j", "k", "l", "m", "n", "o", "p", "q",
   "r", "s", "t", "u", "v", "w", "x", "y", "z", "A", "B", "C", "D", "E", "F", "G", "H",
   "I", "J", "K", "L", "M", "N", "O", "P", "Q", "R", "S", "T", "U", "V", "W", "X", "Y",
   "Z", "0", "1", "2", "3", "4", "5", "6", "7", "8", "9", "_", "-"}

\* The operation id, else the upper-cased method, a space and the path.
NameSource ==
  IF IsDefined(Value(nameCall).operationId) THEN Value(Value(nameCall).operationId)
  ELSE Characters(ToUpperCase(Value(nameCall).key)) \o <<" ">> \o Value(nameCall).path

\* C12: the handle name is the operation id, else "<METHOD> <path>", with
\* each character outside [A-Za-z0-9_-] replaced by one underscore and the
\* others kept; so it holds only characters of [A-Za-z0-9_-].
C12_HandleNameIsSanitized ==
  IsDefined(handleName) =>
    LET name == Value(handleName)
    IN /\ Len(name) = Len(NameSource)
       /\ \A i \in 1..Len(name) :
            /\ name[i] \in AllowedInNames
            /\ name[i] = IF NameSource[i] \in AllowedInNames THEN NameSource[i] ELSE "_"

\* No operation id, method get, path /users/{id}: GET__users__id_.
C12_Witness ==
  /\ IsDefined(handleName)
  /\ Value(nameCall) = [operationId |-> None, key |-> "get", path |-> UsersIdPath]
  /\ Value(handleName) = <<"G", "E", "T", "_", "_", "u", "s", "e", "r", "s", "_", "_",
                           "i", "d", "_">>

----------------------------------------------------------------------------
(* resolveSchema on schemas with allOf: node 1 is the schema resolved, its *)
(* allOf members are drawn from the nodes that follow.                     *)

MaxMembers == 2

\* The nodes an allOf may have as members (2..7), and the leaves (8, 9).
MemberNodes ==
  <<SchemaObject(2, "object", Some(<<"First">>), None, None, 0,
                 Some(<<<<"a", 8>>>>), None, 0),
    SchemaObject(3, Undefined, None, Some(<<"The second">>), None, 0,
                 Some(<<<<"b", 8>>, <<"a", 9>>>>), None, 0),
    SchemaObject(4, "string", Some(<<"Text">>), None, None, 0, None, None, 0),
    SchemaObject(5, Undefined, Some(<<"Link">>), None, None, 0, None, None, 2),
    SchemaObject(6, Undefined, Some(<<"Unused">>), None, None, 0, None,
                 Some(<<3, 2>>), 0),
    SchemaObject(7, "object", None, Some(<<"The empty one">>), None, 0, None, None, 0),
    SchemaObject(8, "string", None, None, None, 0, None, None, 0),
    SchemaObject(9, "integer", None, None, None, 0, None, None, 0)>>
MemberIds == 2..7

\* The schemas resolved: with or without a shape, a title and properties of
\* their own, and with or without allOf.
ResolvedNodes ==
  {SchemaObject(1, type, title, None, None, 0, properties, allOf, 0) :
     type \in {Undefined, "object"},
     title \in {None, Some(<<"Own">>)},
     properties \in {None, Some(<<<<"c", 9>>>>)},
     allOf \in OptSeqsUpTo(MemberIds, MaxMembers)}

InitResolve ==
  /\ schemaCall \in {Some([schemas |-> <<node>> \o MemberNodes,
                           state |-> [varname |-> "body", depth |-> 1]]) :
                       node \in ResolvedNodes}
  /\ templates = <<>>
  /\ NoFrontCall
  /\ chain = <<PathItemNode(<<"get">>, None, None)>>
  /\ loopTo = 0
  /\ opNode = OperationNode(None, None, None)
  /\ apiServers = None
  /\ options = NoOptions
  /\ NoParamsCall /\ NoOperationsCall /\ NoRequestCall /\ NoNameCall

\* A call resolveSchema(context, schema): the schema after its first step
\* (traversed) and after its second, the allOf step (result).
CallResolveSchema ==
  /\ IsDefined(schemaCall)
  /\ \A i \in 1..Len(templates) : templates[i].fn # "resolveSchema"
  /\ LET g == Value(schemaCall).schemas
     IN templates' = Append(templates,
                            [fn |-> "resolveSchema", state |-> Value(schemaCall).state,
                             traversed |-> TraverseSchemaReference(g, g[1]),
                             result |-> ResolveSchema(g, g[1])])
  /\ UNCHANGED <<docVars, frontVars, nameVars, walkVars, paramVars, opsVars, reqVars, schemaCall>>

NextResolve == CallResolveSchema \/ CallGenerateSchemaTemplate

SpecResolve == InitResolve /\ [][NextResolve]_vars

\* The allOf members of a schema as the helper resolves them.
ResolvedMembers(schema) ==
  [i \in 1..Len(Value(schema.allOf)) |->
     ResolveSchema(Value(schemaCall).schemas, Value(schemaCall).schemas[Value(schema.allOf)[i]])]

\* The entries of the properties of a schema.
PropertiesOf(schema) == IF IsDefined(schema.properties) THEN Value(schema.properties) ELSE <<>>

\* The first text present among those of the members, if any.
FirstPresent(texts) ==
  IF \E i \in 1..Len(texts) : IsDefined(texts[i])
  THEN texts[CHOOSE i \in 1..Len(texts) :
               IsDefined(texts[i]) /\ \A j \in 1..(i - 1) : ~IsDefined(texts[j])]
  ELSE None

\* The entries are the union of the members' properties, a key holding the
\* value of the last member that has it.
IsUnionOfProperties(entries, members) ==
  /\ \A i, j \in 1..Len(entries) : entries[i][1] = entries[j][1] => i = j
  /\ \A m \in 1..Len(members) : \A e \in Range(PropertiesOf(members[m])) :
       HasKey(entries, e[1])
  /\ \A i \in 1..Len(entries) :
       \E m \in 1..Len(members) :
         /\ entries[i] \in Range(PropertiesOf(members[m]))
         /\ \A n \in (m + 1)..Len(members) : ~HasKey(PropertiesOf(members[n]), entries[i][1])

\* The top-level master template that was generated, if it is recorded.
IsRawJsonAtTop ==
  \A i \in 1..Len(templates) :
    (templates[i].fn = "generateMasterTemplate" /\ templates[i].state = Value(schemaCall).state)
      => templates[i].template = JsonCode(templates[i].state)

\* C13: the allOf step on a schema with allOf. If every member resolves to an
\* object-shaped schema, the result is an object schema with the union of
\* the members' properties (later members overwrite), the first member title
\* and the first member description present. Otherwise the result is the
\* schema itself, allOf intact, and without an object or array shape of its
\* own it renders as the raw JSON block.
C13_AllOfMergesObjectsOnly ==
  \A k \in 1..Len(templates) :
    (templates[k].fn = "resolveSchema" /\ IsDefined(templates[k].traversed.allOf)) =>
      LET schema == templates[k].traversed
          result == templates[k].result
          members == ResolvedMembers(schema)
      IN IF \A m \in 1..Len(members) : IsObjectSchema(members[m])
         THEN /\ result.type = "object"
              /\ result.allOf = None
              /\ IsDefined(result.properties)
              /\ IsUnionOfProperties(Value(result.properties), members)
              /\ result.title = FirstPresent([m \in 1..Len(members) |-> members[m].title])
              /\ result.description =
                   FirstPresent([m \in 1..Len(members) |-> members[m].description])
         ELSE /\ result = schema
              /\ (~IsObjectSchema(schema) /\ ~IsArraySchema(schema)) => IsRawJsonAtTop

\* A merge of two members that share the key a: the second member's value
\* is kept, with the title of the first and the description of the second.
C13_Witness ==
  \E k \in 1..Len(templates) :
    /\ templates[k].fn = "resolveSchema"
    /\ templates[k].traversed.allOf = Some(<<2, 3>>)
    /\ templates[k].result.properties = Some(<<<<"a", 9>>, <<"b", 8>>>>)
    /\ templates[k].result.title = Some(<<"First">>)
    /\ templates[k].result.description = Some(<<"The second">>)

----------------------------------------------------------------------------
(* The heading of an array master template, under SpecTemplate.            *)

\* The schema generateSchemaTemplate was called with, resolved, and the
\* resolved schema of its items.
TopSchema ==
  ResolveSchema(Value(schemaCall).schemas, Value(schemaCall).schemas[1])
TopItemSchema == ItemSchemaOf(Value(schemaCall).schemas, TopSchema)

\* The headings "<item title> list" can stand for when the title has more
\* than one line: the whole title with the suffix, or its first line with it.
ItemListHeadings(title) == {TextPlus(title, " list"), <<title[1] \o " list">>}

\* C14: the heading of an array master template is the first line of the
\* array schema's title, else "<item title> list" if the resolved item
\* schema has a title, else "List".
C14_ArrayHeading ==
  \A i \in 1..Len(templates) :
    (templates[i].fn = "generateMasterTemplate"
       /\ templates[i].state = Value(schemaCall).state
       /\ IsArraySchema(TopSchema)) =>
      LET heading == templates[i].template.block[1]
      IN /\ heading.h = templates[i].state.depth
         /\ IF IsDefined(TopSchema.title)
              THEN heading.text = <<Value(TopSchema.title)[1]>>
            ELSE IF IsDefined(TopItemSchema.title)
              THEN heading.text \in ItemListHeadings(Value(TopItemSchema.title))
            ELSE heading.text = <<"List">>

\* C15: every template generateSchemaTemplate returns carries the markdown
\* encoding and has a $block, the raw JSON fallback being wrapped in one.
C15_TopLevelHasBlock ==
  \A i \in 1..Len(templates) :
    templates[i].fn = "generateSchemaTemplate" =>
      /\ templates[i].template.encode = "markdown"
      /\ "block" \in DOMAIN templates[i].template.content

----------------------------------------------------------------------------
(* The content of operation.allParameters, under SpecParams.               *)

\* The lists allParameters reads: the operation's and the path item's (its
\* own list, else the list of its $ref target).
DirectParameters == IF IsDefined(opNode.parameters) THEN Value(opNode.parameters) ELSE <<>>
InheritedParameters ==
  IF IsDefined(PathItemParameters(chain)) THEN Value(PathItemParameters(chain)) ELSE <<>>

SameKey(p, q) == p.name = q.name /\ p.in = q.in

\* The entries of a list at the positions of a set, in the order of the list.
RECURSIVE Pick(_, _, _)
Pick(list, positions, i) ==
  IF i > Len(list) THEN <<>>
  ELSE (IF i \in positions THEN <<list[i]>> ELSE <<>>) \o Pick(list, positions, i + 1)

\* C16 as stated: the operation's parameters, then the path item's without
\* exactly those whose (name, in) an operation parameter has.
C16_PathItemParametersMinusOperation ==
  IsDefined(allParams) =>
    Value(allParams) =
      DirectParameters
        \o Pick(InheritedParameters,
                {i \in 1..Len(InheritedParameters) :
                   \A j \in 1..Len(DirectParameters) :
                     ~SameKey(InheritedParameters[i], DirectParameters[j])}, 1)

\* C16 amended: the operation's parameters, then the path item's without
\* exactly those whose (name, in) an operation parameter or an earlier
\* parameter of the path item has; an entry whose key both levels declare
\* is the operation's.
C16_PathItemParametersMinusEarlier ==
  IsDefined(allParams) =>
    /\ Value(allParams) =
         DirectParameters
           \o Pick(InheritedParameters,
                   {i \in 1..Len(InheritedParameters) :
                      /\ \A j \in 1..Len(DirectParameters) :
                           ~SameKey(InheritedParameters[i], DirectParameters[j])
                      /\ \A j \in 1..(i - 1) :
                           ~SameKey(InheritedParameters[i], InheritedParameters[j])}, 1)
    /\ \A k \in 1..Len(Value(allParams)) :
         ((\E j \in 1..Len(DirectParameters) : SameKey(Value(allParams)[k], DirectParameters[j]))
            /\ (\E i \in 1..Len(InheritedParameters) :
                  SameKey(Value(allParams)[k], InheritedParameters[i])))
           => Value(allParams)[k].node = "operation"

\* The path item declares a parameter the operation declares too, then one
\* it does not: the list is the operation's parameter and the second.
C16_Witness ==
  /\ IsDefined(allParams)
  /\ Len(DirectParameters) = 1 /\ Len(InheritedParameters) = 2
  /\ SameKey(InheritedParameters[1], DirectParameters[1])
  /\ ~SameKey(InheritedParameters[2], DirectParameters[1])
  /\ InheritedParameters[2].name = DirectParameters[1].name
  /\ Value(allParams) = <<DirectParameters[1], InheritedParameters[2]>>

----------------------------------------------------------------------------
(* Cookie parameters, under SpecRequest.                                   *)

\* The property of a name holds the root that a cookie parameter submitted.
IsCookieProperty(name) ==
  /\ HasKey(Value(request).locals.paramIndex, name)
  /\ LET position == Lookup(Value(request).locals.paramIndex, name) + 1
     IN position <= Len(PlacedParameters) /\ PlacedParameters[position].in = "cookie"

\* The names the request template that was returned refers to: the query
\* variables of its URL, its header values, its body.
ReferencedNames ==
  LET locals == Value(request).locals
      template == Value(Value(request).returned).request
  IN (IF IsDefined(locals.query) THEN Range(Keys(Value(locals.query))) ELSE {})
     \cup (IF IsDefined(template.headers)
             THEN {Value(template.headers)[i][2].ref : i \in 1..Len(Value(template.headers))}
             ELSE {})
     \cup (IF IsDefined(template.body) THEN {Value(template.body).ref} ELSE {})

\* C17: a cookie parameter with a schema is a key of parameters.properties
\* and, if required, an element of parameters.required; the request has no
\* cookies and nothing in it refers to the property of a cookie parameter.
C17_CookiesCollectedNotEmitted ==
  (IsDefined(request) /\ IsDefined(Value(request).returned)) =>
    /\ \A i \in 1..Len(PlacedParameters) :
         PlacedParameters[i].in = "cookie" =>
           /\ HasKey(ReturnedProperties, PlacedParameters[i].name)
           /\ PlacedParameters[i].required => PlacedParameters[i].name \in ReturnedRequired
    /\ "cookies" \notin DOMAIN Value(Value(request).returned).request
    /\ \A n \in ReferencedNames : ~IsCookieProperty(n)

----------------------------------------------------------------------------
(* Repeated calls on documents whose parameters and request bodies         *)
(* override the descriptions of their schemas.                             *)

DescribedSchemas ==
  {[type |-> "string", description |-> d] : d \in {Undefined, "From the schema"}}
DescribedParameters ==
  {Parameter(level, n, l, TRUE, Some(sc), d) :
     level \in {"operation"}, n \in {"id", "q"}, l \in {"query", "cookie"},
     sc \in DescribedSchemas, d \in {Undefined, "From the parameter"}}
DescribedBodies ==
  {RequestBody(d, TRUE, <<ContentType("application/json",
                                      Some([type |-> "object", description |-> sd]))>>) :
     d \in {Undefined, "From the body"}, sd \in {Undefined, "From the schema"}}

InitRequestRepeat ==
  /\ opNode \in {OperationNode(p, None, b) :
                   p \in OptSeqsUpTo(DescribedParameters, MaxParams),
                   b \in {None} \cup {Some(rb) : rb \in DescribedBodies}}
  /\ NoFrontCall
  /\ chain \in {<<PathItemNode(<<"post">>, p, None)>> :
                  p \in {None,
                         Some(<<Parameter("pathItem", "id", "path", TRUE,
                                          Some([type |-> "integer",
                                                description |-> "From the schema"]),
                                          "From the path item")>>)}}
  /\ loopTo = 0
  /\ apiServers = Some(<<LevelServer("api")>>)
  /\ options = NoOptions
  /\ NoParamsCall /\ NoOperationsCall /\ NoRequestCall /\ NoTemplateCall /\ NoNameCall

SpecRequestRepeat == InitRequestRepeat /\ [][NextRequest]_vars

----------------------------------------------------------------------------
(* Termination of pathItem.operations(): the iterator is driven to its     *)
(* end by a consumer that keeps asking for the next operation (a for-of    *)
(* loop), so a step that is possible is eventually taken.                  *)

SpecOperationsFair ==
  InitOperations /\ [][NextOperations]_vars /\ WF_vars(NextOperations)

\* C19: operations() is exhausted after finitely many steps, on a cyclic
\* $ref chain too.
C19_OperationsTerminates == <>(cursor = 0)

----------------------------------------------------------------------------
(* The template engine step by step: generateMasterTemplate on schema      *)
(* tables whose nodes may refer to any node, themselves included. The      *)
(* stack holds the calls of resolveSchema and generateKeyPropertyItems in  *)
(* progress. A frame of resolveSchema is at the schema its traversal has   *)
(* reached (next = 0) or at the allOf member it resolves next; a frame of  *)
(* generateKeyPropertyItems digests the resolved schema of its node and is *)
(* at the property it handles next. The resolved schema of a node is read  *)
(* only after the call of resolveSchema on that node has returned. Every   *)
(* array schema of these tables has items.                                 *)

\* The size of the stack of calls: more frames than any nesting on a table
\* without a cycle needs.
StackLimit == 2 * MaxSchemaNodes + 2

\* A node that refers to no node, or to one node of the table: by $ref, as
\* its one allOf member, as a property, as its items.
AnyNodes(id) ==
  {SchemaObject(id, type, None, None, None, 0, None, None, 0) : type \in {"object", "string"}}
  \cup {SchemaObject(id, Undefined, None, None, None, 0, None, None, j) :
          j \in 1..MaxSchemaNodes}
  \cup {SchemaObject(id, Undefined, None, None, None, 0, None, Some(<<j>>), 0) :
          j \in 1..MaxSchemaNodes}
  \cup {SchemaObject(id, "object", None, None, None, 0, Some(<<<<"next", j>>>>), None, 0) :
          j \in 1..MaxSchemaNodes}
  \cup {SchemaObject(id, "array", None, None, None, j, None, None, 0) :
          j \in 1..MaxSchemaNodes}

RECURSIVE AnyTablesOf(_)
AnyTablesOf(n) ==
  IF n = 0 THEN {<<>>}
  ELSE {Append(g, node) : g \in AnyTablesOf(n - 1), node \in AnyNodes(n)}

InitEngine ==
  /\ schemaCall \in {Some([schemas |-> g, state |-> [varname |-> "body", depth |-> 1]]) :
                       g \in AnyTablesOf(MaxSchemaNodes)}
  /\ templates = <<>>
  /\ stack = <<>> /\ phase = "idle" /\ turns = 0
  /\ nameCall = None /\ handleName = None
  /\ NoFrontCall
  /\ chain = <<PathItemNode(<<"get">>, None, None)>>
  /\ loopTo = 0
  /\ opNode = OperationNode(None, None, None)
  /\ apiServers = None
  /\ options = NoOptions
  /\ NoParamsCall /\ NoOperationsCall /\ NoRequestCall

Schemas == Value(schemaCall).schemas
Top == stack[Len(stack)]
ResolveFrame(node, copy) == [fn |-> "resolveSchema", node |-> node, copy |-> copy, next |-> 0]
KeysFrame(node) ==
  [fn |-> "generateKeyPropertyItems", node |-> node, resolved |-> FALSE, next |-> 1]
ReplaceTop(frame) == [stack EXCEPT ![Len(stack)] = frame]
EngineFrame == <<docVars, frontVars, nameVars, paramVars, opsVars, reqVars, tplVars, turns>>

\* The resolved schema of a node whose resolution has returned.
ResolvedNode(node) == ResolveSchema(Schemas, Schemas[node])

\* The allOf members a frame of resolveSchema loops over: those of the
\* schema its traversal ended at, or those the copy it was given still has.
MembersOf(frame) ==
  LET schema == IF frame.copy THEN ResolvedNode(frame.node) ELSE Schemas[frame.node]
  IN IF IsDefined(schema.allOf) THEN Value(schema.allOf) ELSE <<>>

\* The member resolved last was not object-shaped: resolveAllOfSchema returns.
BailsOut(frame) ==
  frame.next > 1 /\ ~IsObjectSchema(ResolvedNode(MembersOf(frame)[frame.next - 1]))

\* generateMasterTemplate: schema = resolveSchema(context, schema).
EngineStart ==
  /\ phase = "idle" /\ IsDefined(schemaCall)
  /\ stack' = <<ResolveFrame(1, FALSE)>>
  /\ phase' = "resolveSchema"
  /\ UNCHANGED EngineFrame

\* traverseSchemaReference: schema = reference.target.
TraverseStep ==
  /\ stack # <<>> /\ Top.fn = "resolveSchema" /\ Top.next = 0
  /\ ~Top.copy /\ Schemas[Top.node].ref # 0
  /\ stack' = ReplaceTop([Top EXCEPT !.node = Schemas[Top.node].ref])
  /\ turns' = 1 - turns
  /\ UNCHANGED <<docVars, frontVars, nameVars, paramVars, opsVars, reqVars, tplVars, phase>>

\* traverseSchemaReference: break, and the return of the spread.
TraverseEnd ==
  /\ stack # <<>> /\ Top.fn = "resolveSchema" /\ Top.next = 0
  /\ Top.copy \/ Schemas[Top.node].ref = 0
  /\ stack' = ReplaceTop([Top EXCEPT !.next = 1])
  /\ UNCHANGED <<EngineFrame, phase>>

\* resolveAllOfSchema is at a member it resolves.
AtMember ==
  /\ stack # <<>> /\ Top.fn = "resolveSchema" /\ Top.next >= 1
  /\ Top.next <= Len(MembersOf(Top))
  /\ ~BailsOut(Top)

\* resolveAllOfSchema: memberSchema = resolveSchema(context, memberSchema).
ResolveMember ==
  /\ AtMember
  /\ Len(stack) < StackLimit
  /\ stack' = Append(ReplaceTop([Top EXCEPT !.next = @ + 1]),
                     ResolveFrame(MembersOf(Top)[Top.next], FALSE))
  /\ UNCHANGED <<EngineFrame, phase>>

\* resolveAllOfSchema returns: no allOf, a member that is not object-shaped,
\* or the merge of all the members.
ResolveReturn ==
  /\ stack # <<>> /\ Top.fn = "resolveSchema" /\ Top.next >= 1
  /\ Top.next > Len(MembersOf(Top)) \/ BailsOut(Top)
  /\ stack' = SubSeq(stack, 1, Len(stack) - 1)
  /\ UNCHANGED <<EngineFrame, phase>>

\* The properties a frame of generateKeyPropertyItems loops over.
PropertiesAt(frame) == PropertiesOf(ResolvedNode(frame.node))

\* generateKeyPropertyItems is at a property it resolves.
AtProperty ==
  /\ stack # <<>> /\ Top.fn = "generateKeyPropertyItems" /\ ~Top.resolved
  /\ Top.next <= Len(PropertiesAt(Top))

\* generateKeyPropertyItems: propSchema = resolveSchema(context, propSchema).
KeysResolveProperty ==
  /\ AtProperty
  /\ Len(stack) < StackLimit
  /\ stack' = Append(ReplaceTop([Top EXCEPT !.resolved = TRUE]),
                     ResolveFrame(PropertiesAt(Top)[Top.next][2], FALSE))
  /\ UNCHANGED <<EngineFrame, phase>>

\* generateKeyPropertyItems is at an object-shaped property it digests.
AtObjectProperty ==
  /\ stack # <<>> /\ Top.fn = "generateKeyPropertyItems" /\ Top.resolved
  /\ Top.next <= Len(PropertiesAt(Top))
  /\ IsObjectSchema(ResolvedNode(PropertiesAt(Top)[Top.next][2]))

\* generateKeyPropertyItems: the digest of an object-shaped property.
KeysDigestProperty ==
  /\ AtObjectProperty
  /\ Len(stack) < StackLimit
  /\ stack' = Append(ReplaceTop([Top EXCEPT !.next = @ + 1, !.resolved = FALSE]),
                     KeysFrame(PropertiesAt(Top)[Top.next][2]))
  /\ UNCHANGED <<EngineFrame, phase>>

\* generateKeyPropertyItems: a property that is not object-shaped.
KeysSkipProperty ==
  /\ stack # <<>> /\ Top.fn = "generateKeyPropertyItems" /\ Top.resolved
  /\ Top.next <= Len(PropertiesAt(Top))
  /\ ~IsObjectSchema(ResolvedNode(PropertiesAt(Top)[Top.next][2]))
  /\ stack' = ReplaceTop([Top EXCEPT !.next = @ + 1, !.resolved = FALSE])
  /\ UNCHANGED <<EngineFrame, phase>>

\* generateKeyPropertyItems returns its items.
KeysReturn ==
  /\ stack # <<>> /\ Top.fn = "generateKeyPropertyItems" /\ ~Top.resolved
  /\ Top.next > Len(PropertiesAt(Top))
  /\ stack' = SubSeq(stack, 1, Len(stack) - 1)
  /\ UNCHANGED <<EngineFrame, phase>>

\* A call with the stack of calls full: the engine throws a RangeError
\* and no template is returned.
StackOverflow ==
  /\ AtMember \/ AtProperty \/ AtObjectProperty
  /\ Len(stack) = StackLimit
  /\ stack' = <<>>
  /\ phase' = "RangeError"
  /\ UNCHANGED EngineFrame

\* generateMasterTemplate after resolveSchema: an array schema resolves its
\* items, an object schema digests its properties, another one falls back.
MasterDispatch ==
  /\ stack = <<>> /\ phase = "resolveSchema"
  /\ LET schema == ResolvedNode(1)
     IN IF IsArraySchema(schema)
          THEN stack' = <<ResolveFrame(schema.items, FALSE)>> /\ phase' = "items"
        ELSE IF IsObjectSchema(schema)
          THEN stack' = <<KeysFrame(1)>> /\ phase' = "keys"
        ELSE stack' = stack /\ phase' = "done"
  /\ UNCHANGED EngineFrame

\* generateArrayMasterTemplate after the items are resolved: their digest.
ArrayDigestItems ==
  /\ stack = <<>> /\ phase = "items"
  /\ stack' = <<KeysFrame(ResolvedNode(1).items)>>
  /\ phase' = "itemKeys"
  /\ UNCHANGED EngineFrame

\* generateElementTemplate: schema = resolveSchema(context, schema), on the
\* resolved copy of the items.
ElementResolve ==
  /\ stack = <<>> /\ phase = "itemKeys"
  /\ stack' = <<ResolveFrame(ResolvedNode(1).items, TRUE)>>
  /\ phase' = "element"
  /\ UNCHANGED EngineFrame

\* The template is assembled and returned.
MasterReturn ==
  /\ stack = <<>> /\ phase \in {"keys", "element"}
  /\ phase' = "done"
  /\ UNCHANGED <<EngineFrame, stack>>

NextEngine ==
  \/ EngineStart \/ TraverseStep \/ TraverseEnd \/ ResolveMember \/ ResolveReturn
  \/ KeysResolveProperty \/ KeysDigestProperty \/ KeysSkipProperty \/ KeysReturn
  \/ MasterDispatch \/ ArrayDigestItems \/ ElementResolve \/ MasterReturn
  \/ StackOverflow

\* The engine runs on one thread without suspension: a step that is
\* possible is taken.
SpecEngine == InitEngine /\ [][NextEngine]_vars /\ WF_vars(NextEngine)

\* C20: generateSchemaTemplate terminates with a template on every schema
\* table, with reference cycles, allOf members and properties that lead back
\* included: no traversal spins and no nesting fills the stack of calls.
C20_EngineTerminates == <>(phase = "done")

----------------------------------------------------------------------------
(* createOperationFilter (cli/openapi.ts): the filter of list, generate    *)
(* and batch. Option values, tags and operation ids are sequences of       *)
(* one-character strings; a pattern is made of plain characters.           *)

\* Longest value of the --tags option.
MaxTagsLen == 3

\* tags.split(","): the pieces between the commas, in order.
RECURSIVE SplitFrom(_, _, _)
SplitFrom(text, piece, pieces) ==
  IF text = <<>> THEN Append(pieces, piece)
  ELSE IF Head(text) = "," THEN SplitFrom(Tail(text), <<>>, Append(pieces, piece))
  ELSE SplitFrom(Tail(text), Append(piece, Head(text)), pieces)

Split(text) == SplitFrom(text, <<>>, <<>>)

\* tag.trim(): without the white space at either end.
RECURSIVE Trim(_)
Trim(text) ==
  IF text = <<>> THEN text
  ELSE IF Head(text) = " " THEN Trim(Tail(text))
  ELSE IF text[Len(text)] = " " THEN Trim(SubSeq(text, 1, Len(text) - 1))
  ELSE text

\* new Set(tags.split(",").map((tag) => tag.trim()))
TagSet(tags) == {Trim(Split(tags)[i]) : i \in 1..Len(Split(tags))}

\* new RegExp(pattern).test(text), for a pattern of plain characters: the
\* pattern occurs in the text.
Test(pattern, text) ==
  \E start \in 1..(Len(text) + 1) :
    /\ start + Len(pattern) - 1 <= Len(text)
    /\ SubSeq(text, start, start + Len(pattern) - 1) = pattern

\* An operation as the filter sees it.
FilteredOperation(operationId, tags) == [operationId |-> operationId, tags |-> tags]

\* The first test of the filter: a tag set is given, the operation has a
\* tags list, and none of its tags is in the set.
RefusedByTags(tags, operation) ==
  /\ IsDefined(tags)
  /\ IsDefined(operation.tags)
  /\ ~\E i \in 1..Len(Value(operation.tags)) :
        Value(operation.tags)[i] \in TagSet(Value(tags))

\* The function createOperationFilter returns, applied to an operation.
OperationFilter(include, exclude, tags, operation) ==
  IF RefusedByTags(tags, operation) THEN FALSE
  ELSE IF /\ IsDefined(operation.operationId)
          /\ IsDefined(include)
          /\ ~Test(Value(include), Value(operation.operationId))
    THEN FALSE
  ELSE IF /\ IsDefined(operation.operationId)
          /\ IsDefined(exclude)
          /\ Test(Value(exclude), Value(operation.operationId))
    THEN FALSE
  ELSE TRUE

TagCharacters == {"a", "b", ",", " "}
TagLists == {None, Some(<<>>), Some(<<<<"a">>>>), Some(<<<<"b">>>>),
             Some(<<<<"b">>, <<"a">>>>), Some(<<<<"a", "b">>>>)}
Patterns == {None, Some(<<"a">>)}

IdleDocument ==
  /\ chain = <<PathItemNode(<<"get">>, None, None)>>
  /\ loopTo = 0
  /\ opNode = OperationNode(None, None, None)
  /\ apiServers = None
  /\ options = NoOptions
  /\ NoParamsCall /\ NoOperationsCall /\ NoRequestCall /\ NoTemplateCall /\ NoNameCall

InitFilter ==
  /\ filterCall \in
       {Some([include |-> include, exclude |-> exclude, tags |-> tags,
              operation |-> FilteredOperation(id, opTags)]) :
          include \in Patterns, exclude \in Patterns,
          tags \in OptSeqsUpTo(TagCharacters, MaxTagsLen),
          id \in {None, Some(<<"a">>), Some(<<"b">>)}, opTags \in TagLists}
  /\ accepted = None
  /\ NoParseCall /\ NoCommand
  /\ IdleDocument

\* operationFilter(operation)
CallOperationFilter ==
  /\ IsDefined(filterCall) /\ accepted = None
  /\ LET call == Value(filterCall)
     IN accepted' = Some(OperationFilter(call.include, call.exclude, call.tags,
                                         call.operation))
  /\ UNCHANGED <<docVars, nameVars, walkVars, paramVars, opsVars, reqVars, tplVars>>
  /\ UNCHANGED <<filterCall, parseVars, cliVars>>

NextFilter == CallOperationFilter

SpecFilter == InitFilter /\ [][NextFilter]_vars

\* The operation of the call has one of the tags given by --tags.
HasGivenTag ==
  LET call == Value(filterCall)
  IN /\ IsDefined(call.operation.tags)
     /\ \E i \in 1..Len(Value(call.operation.tags)) :
          \E j \in 1..Len(Split(Value(call.tags))) :
            Value(call.operation.tags)[i] = Trim(Split(Value(call.tags))[j])

\* C21: with --tags the filter accepts an operation only if one of its tags
\* is among the given ones; an operation without any of them, one that
\* declares no tags included, is refused.
C21_TagsFilterNeedsATag ==
  (IsDefined(accepted) /\ IsDefined(Value(filterCall).tags) /\ Value(accepted))
    => HasGivenTag

----------------------------------------------------------------------------
(* The generate and batch commands (cli/generate.ts, cli/batch.ts), one    *)
(* action per stretch of code between two awaits. A number is a record     *)
(* that tells whether it is NaN; operation ids have no "/", so the         *)
(* directory of a handle is the output directory of its document.          *)

\* Most files the glob of batch matches.
MaxFiles == 3
\* Most documents of a run whose handle files are looked at.
MaxDocuments == 2

NaN == [nan |-> TRUE, value |-> 0]
Num(n) == [nan |-> FALSE, value |-> n]

DigitValue(char) == CASE char = "0" -> 0 [] char = "1" -> 1 [] char = "2" -> 2
                      [] char = "3" -> 3 [] char = "4" -> 4

RECURSIVE DigitsValue(_, _)
DigitsValue(text, sofar) ==
  IF text = <<>> THEN sofar
  ELSE DigitsValue(Tail(text), 10 * sofar + DigitValue(Head(text)))

AllDigits(text) == \A k \in 1..Len(text) : text[k] \in {"0", "1", "2", "3", "4"}

\* Number(text): 0 for the empty string, the integer a decimal numeral with
\* an optional sign stands for, NaN for another text.
Number(text) ==
  IF text = <<>> THEN Num(0)
  ELSE IF AllDigits(text) THEN Num(DigitsValue(text, 0))
  ELSE IF Head(text) = "-" /\ Len(text) > 1 /\ AllDigits(Tail(text))
    THEN Num(0 - DigitsValue(Tail(text), 0))
  ELSE NaN

\* i + concurrent
Plus(a, b) == IF a.nan \/ b.nan THEN NaN ELSE Num(a.value + b.value)

\* i < files.length
LessThan(a, n) == ~a.nan /\ a.value < n

\* The index Array.prototype.slice makes of an argument: NaN is 0, a
\* negative one counts from the end, and the result lies in 0..length.
RelativeIndex(a, length) ==
  LET k == IF a.nan THEN 0 ELSE a.value
  IN IF k < 0 THEN (IF length + k < 0 THEN 0 ELSE length + k)
     ELSE IF k > length THEN length ELSE k

\* files.slice(start, end): the positions of the elements taken, 1-based.
SlicePositions(start, end, length) ==
  {k \in 1..length :
     RelativeIndex(start, length) < k /\ k <= RelativeIndex(end, length)}

\* An OpenAPI file: its directory, whether it can be read, is of a supported
\* version and parses, and the operations of its document.
OpenApiFile(dir, kind, operations) ==
  [dir |-> dir, kind |-> kind, operations |-> operations]

\* An operation of a document: its operationId and tags, and whether a
\* handle can be generated for it.
CommandOperation(operationId, tags, handle) ==
  [operationId |-> operationId, tags |-> tags, handle |-> handle]

\* join(dirname(file), outputDir) of batch
FileOutputDir(file) == <<file.dir, "tool-handles">>

\* join(dirPath, fileName)
FilePath(dirPath, operationId) == Append(dirPath, operationId)

\* The counters of a run.
Counts(generated, skipped, processedFiles, skippedFiles, failedFiles, totalOperations) ==
  [generated |-> generated, skipped |-> skipped, processedFiles |-> processedFiles,
   skippedFiles |-> skippedFiles, failedFiles |-> failedFiles,
   totalOperations |-> totalOperations]

\* The options of a run.
CommandArgs(command, dryRun, overwrite, skipExisting, skipErrors, concurrent, tags) ==
  [command |-> command, dryRun |-> dryRun, overwrite |-> overwrite,
   skipExisting |-> skipExisting, skipErrors |-> skipErrors,
   concurrent |-> concurrent, tags |-> tags]

\* A plausible slip: the dry run is not looked at.
PreviewsNever(a) == FALSE

\* if (dryRun)
Previews(a) == a.dryRun

\* The loop over the operations of a document, from the operation at a
\* position up to the next await or the end of the loop: the position it
\* stops at (past the end when the loop is over) and the counters then.
RECURSIVE HandleLoop(_, _, _, _, _, _)
HandleLoop(operations, position, dirPath, a, existing, c) ==
  IF position > Len(operations) THEN [next |-> position, counts |-> c]
  ELSE
    LET operation == operations[position]
        skip == HandleLoop(operations, position + 1, dirPath, a, existing,
                           [c EXCEPT !.skipped = @ + 1])
    IN IF ~IsDefined(operation.operationId) THEN skip
       ELSE IF ~OperationFilter(None, None, a.tags,
                                FilteredOperation(operation.operationId, operation.tags))
         THEN skip
       ELSE IF operation.handle = "throws" THEN skip
       ELSE
         LET fileExists == FilePath(dirPath, Value(operation.operationId)) \in existing
         IN IF fileExists /\ a.skipExisting THEN skip
            ELSE IF fileExists /\ ~a.overwrite THEN skip
            ELSE IF Previews(a)
              THEN HandleLoop(operations, position + 1, dirPath, a, existing,
                              [c EXCEPT !.generated = @ + 1])
            ELSE [next |-> position, counts |-> c]

\* The processing of a file: where it is, the operation its loop is at, and
\* how many times it was started.
Task(pc, next, starts) == [pc |-> pc, next |-> next, starts |-> starts]

\* A call of the file system, and whether a file was at the path then.
Effect(call, path, by) == [call |-> call, path |-> path, existed |-> path \in disk, by |-> by]

Args == Value(args)
Concurrent == Number(Args.concurrent)

\* The files of the group the loop of batch is at.
Group == SlicePositions(batchStart, Plus(batchStart, Concurrent), Len(files))

\* The index of the loop never matters below -files.length - 1: every slice
\* from a negative index to a smaller one is empty.
Advanced(start, step) ==
  LET sum == Plus(start, step)
  IN IF ~sum.nan /\ sum.value < 0 - Len(files) - 1 THEN Num(0 - Len(files) - 1) ELSE sum

CommandFrame == <<docVars, nameVars, paramVars, opsVars, reqVars, tplVars, filterVars,
                  parseVars, stack, phase, args, files>>

\* The state of a task after the loop over the operations ran from a
\* position: at the await of mkdir for a handle, or returned.
AfterLoop(f, position, dirPath, existing, c) ==
  LET loop == HandleLoop(files[f].operations, position, dirPath, Args, existing, c)
  IN IF loop.next > Len(files[f].operations)
     THEN [task |-> Task("returned", loop.next, tasks[f].starts), counts |-> loop.counts]
     ELSE [task |-> Task("mkdirHandle", loop.next, tasks[f].starts), counts |-> loop.counts]

\* batch: the same, and processedFiles += 1 after the loop.
AfterFileLoop(f, position, existing, c) ==
  LET after == AfterLoop(f, position, FileOutputDir(files[f]), existing, c)
  IN IF after.task.pc = "returned"
     THEN [after EXCEPT !.counts.processedFiles = @ + 1]
     ELSE after

\* batch, run: the glob and the first test of the loop.
BatchRun ==
  /\ runState = "idle" /\ IsDefined(args) /\ Args.command = "batch"
  /\ runState' = IF Len(files) = 0 THEN "finished" ELSE "loop"
  /\ UNCHANGED <<CommandFrame, disk, effects, tasks, batchStart, counts, turns>>

\* files.slice(i, i + concurrent).map(async (file) => ...): every file of
\* the group is started and runs up to its await of loadOpenApiFile.
BatchGroup ==
  /\ runState = "loop" /\ LessThan(batchStart, Len(files))
  /\ tasks' = [f \in 1..Len(files) |->
                 IF f \in Group THEN Task("loadOpenApiFile", 1, tasks[f].starts + 1)
                 ELSE tasks[f]]
  /\ runState' = "awaiting"
  /\ UNCHANGED <<CommandFrame, disk, effects, batchStart, counts, turns>>

\* A plausible slip: Promise.race in the place of Promise.all.
GroupMemberReturned == \E f \in Group : tasks[f].pc = "returned"

\* Promise.all(batch) is fulfilled: every file of the group has returned.
GroupReturned == \A f \in Group : tasks[f].pc = "returned"

\* await Promise.all(batch) resolves; i += concurrent.
BatchJoin ==
  /\ runState = "awaiting"
  /\ GroupReturned
  /\ batchStart' = Advanced(batchStart, Concurrent)
  /\ turns' = 1 - turns
  /\ runState' = "loop"
  /\ UNCHANGED <<CommandFrame, disk, effects, tasks, counts>>

\* await Promise.all(batch) rejects: run throws.
BatchReject ==
  /\ runState = "awaiting"
  /\ \E f \in Group : tasks[f].pc = "thrown"
  /\ runState' = "rejected"
  /\ UNCHANGED <<CommandFrame, disk, effects, tasks, batchStart, counts, turns>>

\* The loop of batch is over: the summary.
BatchFinish ==
  /\ runState = "loop" /\ ~LessThan(batchStart, Len(files))
  /\ runState' = "finished"
  /\ UNCHANGED <<CommandFrame, disk, effects, tasks, batchStart, counts, turns>>

\* batch: loadOpenApiFile has settled; the version check; parseApi is called.
TaskLoaded(f) ==
  /\ Args.command = "batch" /\ tasks[f].pc = "loadOpenApiFile"
  /\ IF files[f].kind = "unreadable"
       THEN IF Args.skipErrors
              THEN /\ tasks' = [tasks EXCEPT ![f].pc = "returned"]
                   /\ counts' = [counts EXCEPT !.failedFiles = @ + 1]
              ELSE /\ tasks' = [tasks EXCEPT ![f].pc = "thrown"]
                   /\ counts' = counts
     ELSE IF files[f].kind = "unsupported"
       THEN /\ tasks' = [tasks EXCEPT ![f].pc = "returned"]
            /\ counts' = [counts EXCEPT !.skippedFiles = @ + 1]
     ELSE /\ tasks' = [tasks EXCEPT ![f].pc = "parseApi"]
          /\ counts' = counts
  /\ UNCHANGED <<CommandFrame, disk, effects, batchStart, runState, turns>>

\* batch: parseApi has settled; the operations are counted and the output
\* directory of the file is made, or with dryRun the loop runs to its end.
TaskParsed(f) ==
  /\ Args.command = "batch" /\ tasks[f].pc = "parseApi"
  /\ IF files[f].kind = "invalid"
       THEN IF Args.skipErrors
              THEN /\ tasks' = [tasks EXCEPT ![f].pc = "returned"]
                   /\ counts' = [counts EXCEPT !.failedFiles = @ + 1]
              ELSE /\ tasks' = [tasks EXCEPT ![f].pc = "thrown"]
                   /\ counts' = counts
     ELSE LET found == [counts EXCEPT !.totalOperations = @ + Len(files[f].operations)]
          IN IF ~Args.dryRun
               THEN /\ tasks' = [tasks EXCEPT ![f].pc = "mkdir"]
                    /\ counts' = found
             ELSE LET after == AfterFileLoop(f, 1, disk, found)
                  IN /\ tasks' = [tasks EXCEPT ![f] = after.task]
                     /\ counts' = after.counts
  /\ UNCHANGED <<CommandFrame, disk, effects, batchStart, runState, turns>>

\* batch: mkdir(fileOutputDir) has settled; the loop over the operations
\* runs up to its first await.
TaskMadeDir(f) ==
  /\ Args.command = "batch" /\ tasks[f].pc = "mkdir"
  /\ effects' = Append(effects, Effect("mkdir", FileOutputDir(files[f]), f))
  /\ LET after == AfterFileLoop(f, 1, disk, counts)
     IN /\ tasks' = [tasks EXCEPT ![f] = after.task]
        /\ counts' = after.counts
  /\ UNCHANGED <<CommandFrame, disk, batchStart, runState, turns>>

\* batch: mkdir(dirPath) has settled; writeFile is called.
TaskMadeHandleDir(f) ==
  /\ Args.command = "batch" /\ tasks[f].pc = "mkdirHandle"
  /\ effects' = Append(effects, Effect("mkdir", FileOutputDir(files[f]), f))
  /\ tasks' = [tasks EXCEPT ![f].pc = "writeFile"]
  /\ UNCHANGED <<CommandFrame, disk, batchStart, runState, counts, turns>>

\* batch: writeFile has settled; the loop goes on up to its next await.
TaskWritten(f) ==
  /\ Args.command = "batch" /\ tasks[f].pc = "writeFile"
  /\ LET path == FilePath(FileOutputDir(files[f]),
                          Value(files[f].operations[tasks[f].next].operationId))
         after == AfterFileLoop(f, tasks[f].next + 1, disk \cup {path},
                                [counts EXCEPT !.generated = @ + 1])
     IN /\ effects' = Append(effects, Effect("writeFile", path, f))
        /\ disk' = disk \cup {path}
        /\ tasks' = [tasks EXCEPT ![f] = after.task]
        /\ counts' = after.counts
  /\ UNCHANGED <<CommandFrame, batchStart, runState, turns>>

NextBatch ==
  \/ BatchRun \/ BatchGroup \/ BatchJoin \/ BatchReject \/ BatchFinish
  \/ \E f \in 1..Len(files) :
       \/ TaskLoaded(f) \/ TaskParsed(f) \/ TaskMadeDir(f)
       \/ TaskMadeHandleDir(f) \/ TaskWritten(f)

\* The --output-dir of generate.
OutputDir == <<"out">>

\* generate, run: loadOpenApiFile is called.
GenerateRun ==
  /\ runState = "idle" /\ IsDefined(args) /\ Args.command = "generate"
  /\ tasks' = [tasks EXCEPT ![1] = Task("loadOpenApiFile", 1, tasks[1].starts + 1)]
  /\ runState' = "awaiting"
  /\ UNCHANGED <<CommandFrame, disk, effects, batchStart, counts, turns>>

\* generate: loadOpenApiFile has settled; parseApi is called.
GenerateLoaded ==
  /\ Args.command = "generate" /\ tasks[1].pc = "loadOpenApiFile"
  /\ IF files[1].kind = "unreadable"
       THEN tasks' = [tasks EXCEPT ![1].pc = "thrown"] /\ runState' = "rejected"
       ELSE tasks' = [tasks EXCEPT ![1].pc = "parseApi"] /\ runState' = runState
  /\ UNCHANGED <<CommandFrame, disk, effects, batchStart, counts, turns>>

\* generate: parseApi has settled; the loop over the operations runs up to
\* its first await, or to the summary.
GenerateParsed ==
  /\ Args.command = "generate" /\ tasks[1].pc = "parseApi"
  /\ IF files[1].kind = "invalid"
       THEN /\ tasks' = [tasks EXCEPT ![1].pc = "thrown"]
            /\ runState' = "rejected"
            /\ counts' = counts
     ELSE LET after == AfterLoop(1, 1, OutputDir, disk, counts)
          IN /\ tasks' = [tasks EXCEPT ![1] = after.task]
             /\ counts' = after.counts
             /\ runState' = IF after.task.pc = "returned" THEN "finished" ELSE runState
  /\ UNCHANGED <<CommandFrame, disk, effects, batchStart, turns>>

\* generate: mkdir(dirPath) has settled; writeFile is called.
GenerateMadeDir ==
  /\ Args.command = "generate" /\ tasks[1].pc = "mkdirHandle"
  /\ effects' = Append(effects, Effect("mkdir", OutputDir, 1))
  /\ tasks' = [tasks EXCEPT ![1].pc = "writeFile"]
  /\ UNCHANGED <<CommandFrame, disk, batchStart, runState, counts, turns>>

\* generate: writeFile has settled; the loop goes on up to its next await,
\* or to the summary.
GenerateWritten ==
  /\ Args.command = "generate" /\ tasks[1].pc = "writeFile"
  /\ LET path == FilePath(OutputDir, Value(files[1].operations[tasks[1].next].operationId))
         after == AfterLoop(1, tasks[1].next + 1, OutputDir, disk \cup {path},
                            [counts EXCEPT !.generated = @ + 1])
     IN /\ effects' = Append(effects, Effect("writeFile", path, 1))
        /\ disk' = disk \cup {path}
        /\ tasks' = [tasks EXCEPT ![1] = after.task]
        /\ counts' = after.counts
        /\ runState' = IF after.task.pc = "returned" THEN "finished" ELSE runState
  /\ UNCHANGED <<CommandFrame, batchStart, turns>>

NextGenerate ==
  GenerateRun \/ GenerateLoaded \/ GenerateParsed \/ GenerateMadeDir \/ GenerateWritten

\* The operations of the documents of these runs.
OperationX == CommandOperation(Some(<<"x">>), None, "ok")
OperationY == CommandOperation(Some(<<"y">>), Some(<<<<"a">>>>), "ok")
OperationZ == CommandOperation(Some(<<"z">>), Some(<<<<"b">>>>), "ok")
Unidentified == CommandOperation(None, None, "ok")
Unservable == CommandOperation(Some(<<"w">>), None, "throws")

\* The documents of a run whose handle files are looked at.
Documents ==
  {OpenApiFile("a", "ok", <<OperationX, OperationY>>),
   OpenApiFile("a", "ok", <<Unidentified, OperationX, OperationX>>),
   OpenApiFile("b", "ok", <<Unservable, OperationZ>>),
   OpenApiFile("b", "unreadable", <<>>)}

\* The options of these runs: every combination of --dry-run, --overwrite
\* and --skip-existing, and the defaults with --tags or without
\* --skip-errors.
CommandOptions(command) ==
  {CommandArgs(command, dryRun, overwrite, skipExisting, TRUE, <<"2">>, None) :
     dryRun \in BOOLEAN, overwrite \in BOOLEAN, skipExisting \in BOOLEAN}
  \cup {CommandArgs(command, FALSE, TRUE, FALSE, TRUE, <<"2">>, Some(<<"a">>)),
        CommandArgs(command, FALSE, TRUE, FALSE, FALSE, <<"2">>, None)}

NoCounts == Counts(0, 0, 0, 0, 0, 0)

IdleFront == NoFilterCall /\ NoParseCall

\* A run of generate or of batch, with or without a handle file on disk at
\* the start.
InitCommands ==
  /\ args \in {Some(a) : a \in CommandOptions("generate") \cup CommandOptions("batch")}
  /\ files \in SeqsUpTo(Documents, MaxDocuments) \ {<<>>}
  /\ Args.command = "generate" => Len(files) = 1
  /\ disk \in {{}, {FilePath(<<"a", "tool-handles">>, <<"x">>), FilePath(OutputDir, <<"x">>)}}
  /\ effects = <<>>
  /\ tasks = [f \in 1..Len(files) |-> Task("waiting", 1, 0)]
  /\ batchStart = Num(0)
  /\ runState = "idle"
  /\ counts = NoCounts
  /\ IdleFront /\ IdleDocument

NextCommands == NextBatch \/ NextGenerate

SpecCommands == InitCommands /\ [][NextCommands]_vars

\* The writeFile calls made so far.
Writes == {k \in 1..Len(effects) : effects[k].call = "writeFile"}

\* C22: with --skip-existing no writeFile is made at a path where a file
\* exists at the time of the write, in generate and in batch, however the
\* files that batch processes together interleave.
C22_SkipExistingNeverOverwrites ==
  (IsDefined(args) /\ Args.skipExisting) => \A k \in Writes : ~effects[k].existed

\* The directory the handles of a file go to.
HandleDir(f) == IF Args.command = "batch" THEN FileOutputDir(files[f]) ELSE OutputDir

\* The operations of a file that a run without --dry-run would write: those
\* with an operationId that pass the filter, have a handle, and are not kept
\* from the disk by --skip-existing or by the lack of --overwrite.
WouldBeWritten(f) ==
  {k \in 1..Len(files[f].operations) :
     LET operation == files[f].operations[k]
     IN /\ IsDefined(operation.operationId)
        /\ IsDefined(Args.tags) /\ IsDefined(operation.tags) =>
             \E t \in 1..Len(Value(operation.tags)) :
               Value(operation.tags)[t] \in TagSet(Value(Args.tags))
        /\ operation.handle = "ok"
        /\ FilePath(HandleDir(f), Value(operation.operationId)) \in disk =>
             (~Args.skipExisting /\ Args.overwrite)}

\* How many operations of the first n files would be written, the files
\* that do not load left out.
RECURSIVE WouldBeWrittenUpTo(_)
WouldBeWrittenUpTo(n) ==
  IF n = 0 THEN 0
  ELSE WouldBeWrittenUpTo(n - 1)
         + (IF files[n].kind = "ok" THEN Cardinality(WouldBeWritten(n)) ELSE 0)

\* C23: with --dry-run generate and batch make no directory and write no
\* file, and when the run is over every operation that would have been
\* written is counted as generated.
C23_DryRunWritesNothing ==
  (IsDefined(args) /\ Args.dryRun) =>
    /\ effects = <<>>
    /\ runState = "finished" =>
         counts.generated = WouldBeWrittenUpTo(Len(files))

\* A dry run of batch is over; it counted more than one handle, one of them
\* for a path where a file exists; nothing was written.
C23_Witness ==
  /\ IsDefined(args) /\ Args.dryRun /\ Args.command = "batch"
  /\ runState = "finished"
  /\ counts.generated > 1 /\ counts.skipped > 0
  /\ disk # {} /\ Args.overwrite /\ ~Args.skipExisting
  /\ effects = <<>>

\* The same for generate.
C23_WitnessGenerate ==
  /\ IsDefined(args) /\ Args.dryRun /\ Args.command = "generate"
  /\ runState = "finished" /\ counts.generated > 1

----------------------------------------------------------------------------
(* batch on its own: the groups of files, for every value of --concurrent. *)

\* The files of these runs.
BatchFiles ==
  {OpenApiFile("a", "ok", <<OperationX>>),
   OpenApiFile("b", "unreadable", <<>>),
   OpenApiFile("c", "unsupported", <<>>),
   OpenApiFile("d", "invalid", <<>>)}

\* The values of --concurrent of these runs.
ConcurrentValues == {<<"1">>, <<"2">>, <<"0">>, <<"-", "1">>, <<"x">>, <<>>}

InitBatch ==
  /\ args \in {Some(CommandArgs("batch", FALSE, TRUE, FALSE, skipErrors, concurrent, None)) :
                 skipErrors \in BOOLEAN, concurrent \in ConcurrentValues}
  /\ files \in SeqsUpTo(BatchFiles, MaxFiles) \ {<<>>}
  /\ disk = {}
  /\ effects = <<>>
  /\ tasks = [f \in 1..Len(files) |-> Task("waiting", 1, 0)]
  /\ batchStart = Num(0)
  /\ runState = "idle"
  /\ counts = NoCounts
  /\ IdleFront /\ IdleDocument

SpecBatch == InitBatch /\ [][NextBatch]_vars

\* The command runs on the event loop of one process: a step that is
\* possible is taken.
SpecBatchFair == SpecBatch /\ WF_vars(NextBatch)

\* --concurrent is a positive integer.
PositiveConcurrent == IsDefined(args) /\ ~Concurrent.nan /\ Concurrent.value > 0

\* The files being processed: started and neither returned nor thrown.
InProgress == {f \in 1..Len(files) : tasks[f].pc \notin {"waiting", "returned", "thrown"}}

\* The group of N a file belongs to, the first group being 0.
GroupOf(f) == (f - 1) \div Concurrent.value

\* C24: with a positive integer --concurrent N, at most N files are being
\* processed at any moment, and no file of a later group is started before
\* every file of the groups before it has finished, having returned or thrown.
C24_GroupsOfAtMostN ==
  PositiveConcurrent =>
    /\ Cardinality(InProgress) <= Concurrent.value
    /\ \A f, g \in 1..Len(files) :
         (tasks[f].pc # "waiting" /\ GroupOf(g) < GroupOf(f))
           => tasks[g].pc \in {"returned", "thrown"}

\* With N = 2 the third file is being processed, and the two files of the
\* first group have returned, one of them after it failed to load.
C24_Witness ==
  /\ PositiveConcurrent /\ Concurrent.value = 2
  /\ Len(files) >= 3
  /\ 3 \in InProgress
  /\ tasks[1].pc = "returned" /\ tasks[2].pc = "returned"
  /\ counts.failedFiles > 0

\* C30: for every value of --concurrent the batch command finishes in the
\* end, and when it has finished every file the glob matched was attempted
\* exactly once.
C30_BatchFinishesAllOnce ==
  /\ <>(runState \in {"finished", "rejected"})
  /\ [](runState = "finished" => \A f \in 1..Len(files) : tasks[f].starts = 1)

----------------------------------------------------------------------------
(* traverseSchemaReference on chains of references: every schema of the    *)
(* chain with or without a title and a description of its own.             *)

TitleOf(id) == <<"Title " \o ToString(id)>>
DescriptionOf(id) == <<"About " \o ToString(id), "More">>

\* A schema that refers to the next one.
ReferringNodes(id) ==
  {SchemaObject(id, Undefined, title, description, None, 0, None, None, id + 1) :
     title \in {None, Some(TitleOf(id))},
     description \in {None, Some(DescriptionOf(id))}}

\* A schema that refers to no other: a string, or an object with a property.
TargetNodes(id) ==
  {SchemaObject(id, shape[1], title, description, None, 0, shape[2], None, 0) :
     shape \in {<<"string", None>>, <<"object", Some(<<<<"name", id>>>>)>>},
     title \in {None, Some(TitleOf(id))},
     description \in {None, Some(DescriptionOf(id))}}

\* The chains s0 -> ... -> sn of n + 1 schemas.
RECURSIVE ReferenceChains(_, _)
ReferenceChains(from, length) ==
  IF length = 1 THEN {<<node>> : node \in TargetNodes(from)}
  ELSE {<<node>> \o rest : node \in ReferringNodes(from),
                           rest \in ReferenceChains(from + 1, length - 1)}

InitTraverse ==
  /\ schemaCall \in {Some([schemas |-> g, state |-> [varname |-> "body", depth |-> 1]]) :
                       g \in UNION {ReferenceChains(1, n) : n \in 1..MaxSchemaNodes}}
  /\ templates = <<>>
  /\ NoFrontCall
  /\ chain = <<PathItemNode(<<"get">>, None, None)>>
  /\ loopTo = 0
  /\ opNode = OperationNode(None, None, None)
  /\ apiServers = None
  /\ options = NoOptions
  /\ NoParamsCall /\ NoOperationsCall /\ NoRequestCall /\ NoNameCall

NextTraverse == CallResolveSchema

SpecTraverse == InitTraverse /\ [][NextTraverse]_vars

\* The titles and the descriptions of the schemas of the chain, s0 first.
ChainTitles == [i \in 1..Len(Schemas) |-> Schemas[i].title]
ChainDescriptions == [i \in 1..Len(Schemas) |-> Schemas[i].description]

\* C25: the traversal of s0 -> ... -> sn returns the content of sn with the
\* title of the first schema of the chain that has one, and the description
\* of the first that has one, each on its own; with no title (description)
\* on the chain the result has none.
C25_TraversalKeepsClosest ==
  \A k \in 1..Len(templates) :
    templates[k].fn = "resolveSchema" =>
      templates[k].traversed =
        [Schemas[Len(Schemas)] EXCEPT !.node = 0,
                                      !.title = FirstPresent(ChainTitles),
                                      !.description = FirstPresent(ChainDescriptions)]

\* A chain of three schemas was traversed: the title came from the second
\* schema although the third has one too, and the description from the first.
C25_Witness ==
  /\ Len(templates) = 1 /\ Len(Schemas) >= 3
  /\ Schemas[1].title = None /\ IsDefined(Schemas[2].title) /\ IsDefined(Schemas[3].title)
  /\ IsDefined(Schemas[1].description)
  /\ templates[1].traversed.title = Schemas[2].title
  /\ templates[1].traversed.description = Schemas[1].description
  /\ templates[1].traversed.type = Schemas[Len(Schemas)].type

\* C29: the title, the description and the properties a schema carries
\* itself, or collected along its $ref chain, survive resolution: the schema
\* resolveSchema returns has them, whether or not an allOf merge took place.
C29_OwnTextsSurviveResolution ==
  \A k \in 1..Len(templates) :
    templates[k].fn = "resolveSchema" =>
      LET own == templates[k].traversed
          resolved == templates[k].result
      IN /\ IsDefined(own.title) => resolved.title = own.title
         /\ IsDefined(own.description) => resolved.description = own.description
         /\ \A i \in 1..Len(PropertiesOf(own)) :
              \E j \in 1..Len(PropertiesOf(resolved)) :
                PropertiesOf(resolved)[j][1] = PropertiesOf(own)[i][1]

\* The required list of the parameters schema that was returned, as a list.
ReturnedRequiredList ==
  LET required == Value(Value(request).returned).parameters.required
  IN IF IsDefined(required) THEN Value(required) ELSE <<>>

\* C28: in the parameters schema generateApiHandleRequest returns, every name
\* of required is a key of properties, and no name is in required twice.
C28_RequiredNamesAreProperties ==
  (IsDefined(request) /\ IsDefined(Value(request).returned)) =>
    /\ \A i \in 1..Len(ReturnedRequiredList) :
         \E j \in 1..Len(ReturnedProperties) :
           ReturnedProperties[j][1] = ReturnedRequiredList[i]
    /\ \A i, j \in 1..Len(ReturnedRequiredList) :
         ReturnedRequiredList[i] = ReturnedRequiredList[j] => i = j

\* The first half of C28 on its own.
RequiredNamesHaveProperties ==
  (IsDefined(request) /\ IsDefined(Value(request).returned)) =>
    \A i \in 1..Len(ReturnedRequiredList) :
      \E j \in 1..Len(ReturnedProperties) :
        ReturnedProperties[j][1] = ReturnedRequiredList[i]

----------------------------------------------------------------------------
(* The two ways to an operation of a path item: the generator operations() *)
(* and the method accessors, on path items that declare parameters and     *)
(* servers of their own along a $ref chain that ends.                      *)

\* ApiPathItem.get, put, ...: the operation of the node if it has the
\* method, else the one the resolved path item returns.
RECURSIVE MethodAccessor(_, _, _, _)
MethodAccessor(ch, lt, position, key) ==
  IF key \in Range(ch[position].keys)
  THEN Some(ApiOperation(key, OperationNodeAt(position, key), position))
  ELSE IF Resolved(ch, lt, position) = 0 THEN None
  ELSE MethodAccessor(ch, lt, Resolved(ch, lt, position), key)

\* The methods whose accessor these runs call.
AccessedMethods == {"get", "put"}

\* pathItem.get, pathItem.put: one call of an accessor.
CallMethodAccessor ==
  /\ \E key \in AccessedMethods :
       /\ \A a \in accessed : a.key # key
       /\ accessed' = accessed \cup
            {[key |-> key, operation |-> MethodAccessor(chain, loopTo, 1, key)]}
  /\ UNCHANGED <<docVars, frontVars, nameVars, walkVars, paramVars, reqVars, tplVars, yielded,
                 cursor, entry, seen>>

\* The path item at a position: with or without a method, parameters and
\* servers of its own.
AccessItems(position) ==
  {PathItemNode(keys, parameters, servers) :
     keys \in {<<>>, <<"get">>, <<"summary", "put">>},
     parameters \in {None, Some(<<Parameter("pathItem", "p" \o ToString(position), "query",
                                            FALSE, None, Undefined)>>)},
     servers \in {None, Some(<<[url |-> "https://s" \o ToString(position),
                                description |-> None]>>)}}

RECURSIVE AccessChains(_, _)
AccessChains(from, length) ==
  IF length = 0 THEN {<<>>}
  ELSE {<<item>> \o rest : item \in AccessItems(from),
                           rest \in AccessChains(from + 1, length - 1)}

InitAccess ==
  /\ NoFrontCall
  /\ chain \in UNION {AccessChains(1, n) : n \in 1..MaxChain}
  /\ loopTo = 0
  /\ opNode = OperationNode(Some(<<Parameter("operation", "q", "query", FALSE, None,
                                             Undefined)>>), None, None)
  /\ apiServers = None
  /\ options = NoOptions
  /\ yielded = <<>> /\ cursor = 1 /\ entry = 1 /\ seen = {} /\ accessed = {}
  /\ NoParamsCall /\ NoRequestCall /\ NoTemplateCall /\ NoNameCall

NextAccess == OperationsSkip \/ OperationsYield \/ OperationsResolve \/ CallMethodAccessor

SpecAccess == InitAccess /\ [][NextAccess]_vars

\* The $ref chain of the path item an operation belongs to.
ChainOf(operation) == SubSeq(chain, operation.pathItem, Len(chain))

\* C27: the operation operations() yields for a method and the operation the
\* accessor of the method returns wrap the same operation node and have the
\* same allParameters and the same path-item servers.
C27_AccessorsAgreeWithOperations ==
  \A i \in 1..Len(yielded) : \A a \in accessed :
    a.key = yielded[i].key =>
      /\ IsDefined(a.operation)
      /\ Value(a.operation).node = yielded[i].node
      /\ AllParameters(opNode, ChainOf(Value(a.operation)))
           = AllParameters(opNode, ChainOf(yielded[i]))
      /\ PathItemServers(ChainOf(Value(a.operation)))
           = PathItemServers(ChainOf(yielded[i]))

\* The same without the parameters and the servers: the same node.
AccessorsWrapTheSameNode ==
  \A i \in 1..Len(yielded) : \A a \in accessed :
    a.key = yielded[i].key =>
      IsDefined(a.operation) /\ Value(a.operation).node = yielded[i].node

----------------------------------------------------------------------------
(* The validator of OpenAPI 3.1 documents: one field parser per object      *)
(* kind, called by parseObject on every entry of the object.  A value is a  *)
(* record with its type; an object carries its entries in document order.   *)

MaxKeys == 2        \* entries of the object the validator is called on
MaxDepth == 2       \* levels of objects below it

StringValue == [type |-> "string"]
UndefinedValue == [type |-> "undefined"]
ObjectValue(entries) == [type |-> "object", entries |-> entries]
EntryOf(key, value) == [key |-> key, value |-> value]

\* String.prototype.startsWith
StartsWith(text, prefix) ==
  Len(text) >= Len(prefix) /\ SubSeq(text, 1, Len(prefix)) = prefix

\* "$ref" in node
HasEntry(value, key) == \E i \in 1..Len(value.entries) : value.entries[i].key = key

\* The case labels of the field parser of each kind.
KnownFields(kind) ==
  CASE kind = "Components Object" ->
         {"schemas", "responses", "parameters", "examples", "requestBodies", "headers",
          "securitySchemes", "links", "callbacks", "pathItems"}
    [] kind = "Encoding Object" ->
         {"contentType", "headers", "style", "explode", "allowReserved"}
    [] kind = "Example Object" -> {"summary", "description", "value", "externalValue"}
    [] kind = "Header Object" ->
         {"description", "required", "deprecated", "style", "explode", "schema", "example",
          "examples", "content"}
    [] kind = "Operation Object" ->
         {"tags", "summary", "description", "externalDocs", "operationId", "parameters",
          "requestBody", "responses", "callbacks", "deprecated", "security", "servers"}
    [] kind = "Parameter Object" ->
         {"name", "in", "description", "required", "deprecated", "allowEmptyValue", "style",
          "explode", "allowReserved", "schema", "example", "examples", "content"}
    [] kind = "Path Item Object" ->
         {"$ref", "summary", "description", "get", "put", "post", "delete", "options",
          "head", "patch", "trace", "servers", "parameters"}
    [] kind = "Server Object" -> {"url", "description", "variables"}
    [] kind = "Server Variable Object" -> {"enum", "default", "description"}
    [] kind = "Reference Object" -> {"$ref", "summary", "description"}
    [] kind = "OAuth Flows Object" ->
         {"implicit", "password", "clientCredentials", "authorizationCode"}
    [] kind = "OAuth Flow Object" -> {"authorizationUrl", "tokenUrl", "refreshUrl", "scopes"}
    [] kind = "Request Body Object" -> {"description", "content", "required"}
    [] kind = "License Object" -> {"name", "identifier", "url"}
    [] kind = "Tag Object" -> {"name", "description", "externalDocs"}
    [] kind = "Contact Object" -> {"name", "url", "email"}
    [] kind = "Media Type Object" -> {"schema", "example", "examples", "encoding"}
    [] kind = "OpenAPI Object" ->
         {"openapi", "info", "jsonSchemaDialect", "servers", "paths", "webhooks",
          "components", "security", "tags", "externalDocs"}
    [] kind = "Link Object" ->
         {"operationRef", "operationId", "parameters", "requestBody", "description", "server"}
    [] kind = "Response Object" -> {"description", "headers", "content", "links"}
    [] kind = "External Documentation Object" -> {"description", "url"}
    [] kind = "Info Object" ->
         {"title", "summary", "description", "termsOfService", "contact", "license",
          "version"}
    [] OTHER -> {}

\* The known fields whose case calls parseString.
StringFields(kind) ==
  CASE kind = "Encoding Object" -> {"contentType", "style"}
    [] kind = "Example Object" -> {"summary", "description", "externalValue"}
    [] kind = "Header Object" -> {"description", "style"}
    [] kind = "Operation Object" -> {"summary", "description", "operationId"}
    [] kind = "Parameter Object" -> {"name", "in", "description", "style"}
    [] kind = "Path Item Object" -> {"$ref", "summary", "description"}
    [] kind = "Server Object" -> {"url", "description"}
    [] kind = "Server Variable Object" -> {"default", "description"}
    [] kind = "Reference Object" -> {"$ref", "summary", "description"}
    [] kind = "OAuth Flow Object" -> {"authorizationUrl", "tokenUrl", "refreshUrl"}
    [] kind = "Request Body Object" -> {"description"}
    [] kind = "License Object" -> {"name", "identifier", "url"}
    [] kind = "Tag Object" -> {"name", "description"}
    [] kind = "Contact Object" -> {"name", "url", "email"}
    [] kind = "OpenAPI Object" -> {"openapi", "jsonSchemaDialect"}
    [] kind = "Link Object" -> {"operationRef", "operationId", "requestBody", "description"}
    [] kind = "Response Object" -> {"description"}
    [] kind = "External Documentation Object" -> {"description", "url"}
    [] kind = "Info Object" -> {"title", "summary", "description", "termsOfService", "version"}
    [] OTHER -> {}

\* The parser of one object that the case of a known field calls:
\* parse<Kind>Object, or parse<Kind>Reference where a reference may stand.
ObjectParser(kind, reference) == [kind |-> kind, reference |-> reference]

ObjectFields(kind) ==
  CASE kind = "Operation Object" ->
         [key \in {"externalDocs", "requestBody", "responses"} |->
            CASE key = "externalDocs" -> ObjectParser("External Documentation Object", FALSE)
              [] key = "requestBody" -> ObjectParser("Request Body Object", TRUE)
              [] OTHER -> ObjectParser("Responses Object", FALSE)]
    [] kind = "Path Item Object" ->
         [key \in {"get", "put", "post", "delete", "options", "head", "patch", "trace"} |->
            ObjectParser("Operation Object", FALSE)]
    [] kind = "OAuth Flows Object" ->
         [key \in {"implicit", "password", "clientCredentials", "authorizationCode"} |->
            ObjectParser("OAuth Flow Object", FALSE)]
    [] kind = "Tag Object" ->
         [key \in {"externalDocs"} |-> ObjectParser("External Documentation Object", FALSE)]
    [] kind = "OpenAPI Object" ->
         [key \in {"info", "paths", "components", "externalDocs"} |->
            CASE key = "info" -> ObjectParser("Info Object", FALSE)
              [] key = "paths" -> ObjectParser("Paths Object", FALSE)
              [] key = "components" -> ObjectParser("Components Object", FALSE)
              [] OTHER -> ObjectParser("External Documentation Object", FALSE)]
    [] kind = "Link Object" -> [key \in {"server"} |-> ObjectParser("Server Object", FALSE)]
    [] kind = "Info Object" ->
         [key \in {"contact", "license"} |->
            IF key = "contact" THEN ObjectParser("Contact Object", FALSE)
            ELSE ObjectParser("License Object", FALSE)]
    [] OTHER -> <<>>

\* The kinds whose every key names an object: a path item or a response.
MapKinds == {"Paths Object", "Callback Object", "Responses Object"}

\* How a parse stands: the error thrown, if any, and the entries the field
\* parsers were called on, each with the kind of its object and its place.
Parse(error, visited) == [error |-> error, visited |-> visited]
Throw(out, message) == Parse(Some(message), out.visited)
Visit(out, kind, path) == Parse(out.error, Append(out.visited, [kind |-> kind, path |-> path]))

\* parseExtension, never throwing.
ParseExtensionLenient(out, name, key) == out

\* parseExtension
ParseExtension(out, name, key) ==
  IF ~StartsWith(key, "x-") THEN Throw(out, <<"Unknown", name, "property", key>>)
  ELSE out

\* parseString
ParseString(out, value, key) ==
  IF value.type # "string" THEN Throw(out, <<key, "must be a string">>) ELSE out

RECURSIVE ParseObject(_, _, _, _)
RECURSIVE ParseEntries(_, _, _, _, _)
RECURSIVE ParseProperty(_, _, _, _, _)
RECURSIVE ParseReferenceObject(_, _, _, _)

\* parseObject with the field parser of the kind.
ParseObject(out, kind, node, path) ==
  IF node.type # "object" THEN Throw(out, <<kind, "must be an object">>)
  ELSE ParseEntries(out, kind, node.entries, 1, path)

\* The loop of parseObject: an entry whose value is undefined is passed
\* over, and an error thrown by a field parser ends the loop.
ParseEntries(out, kind, entries, i, path) ==
  IF IsDefined(out.error) \/ i > Len(entries) THEN out
  ELSE IF entries[i].value.type = "undefined"
  THEN ParseEntries(out, kind, entries, i + 1, path)
  ELSE ParseEntries(ParseProperty(Visit(out, kind, Append(path, entries[i].key)), kind,
                                  entries[i].value, entries[i].key,
                                  Append(path, entries[i].key)),
                    kind, entries, i + 1, path)

\* parseReferenceObject
ParseReferenceObject(out, kind, node, path) ==
  IF node.type # "object" \/ ~HasEntry(node, "$ref") THEN ParseObject(out, kind, node, path)
  ELSE ParseObject(out, "Reference Object", node, path)

\* The field parsers: parsePathsField, parseCallbackField and
\* parseResponsesField, and the switches of the other kinds.
ParseProperty(out, kind, value, key, path) ==
  CASE kind \in {"Paths Object", "Callback Object"} ->
         LET checked == IF StartsWith(key, "x-") THEN ParseExtension(out, kind, key) ELSE out
         IN ParseObject(checked, "Path Item Object", value, path)
    [] kind = "Responses Object" ->
         LET checked == IF StartsWith(key, "x-") THEN ParseExtension(out, kind, key) ELSE out
         IN ParseReferenceObject(checked, "Response Object", value, path)
    [] kind \notin MapKinds /\ key \in StringFields(kind) -> ParseString(out, value, key)
    [] kind \notin MapKinds /\ key \in DOMAIN ObjectFields(kind) ->
         IF ObjectFields(kind)[key].reference
         THEN ParseReferenceObject(out, ObjectFields(kind)[key].kind, value, path)
         ELSE ParseObject(out, ObjectFields(kind)[key].kind, value, path)
    [] kind \notin MapKinds /\ key \in KnownFields(kind) \ StringFields(kind)
         /\ key \notin DOMAIN ObjectFields(kind) -> out
    [] kind = "Reference Object" /\ key \notin KnownFields(kind) -> out
    [] OTHER -> ParseExtension(out, kind, key)

\* parse<Kind>Object called on a node.
CallParseObject ==
  /\ IsDefined(parseCall) /\ ~IsDefined(parsed)
  /\ parsed' = Some(ParseObject(Parse(None, <<>>), Value(parseCall).kind,
                                Value(parseCall).node, <<>>))
  /\ UNCHANGED <<docVars, paramVars, opsVars, reqVars, tplVars, nameVars, walkVars,
                 filterVars, cliVars, parseCall>>

\* The kinds with a switch over their fields.
FieldKinds ==
  {"Components Object", "Encoding Object", "Example Object", "Header Object",
   "Operation Object", "Parameter Object", "Path Item Object", "Server Object",
   "Server Variable Object", "Reference Object", "OAuth Flows Object", "OAuth Flow Object",
   "Request Body Object", "License Object", "Tag Object", "Contact Object",
   "Media Type Object", "OpenAPI Object", "Link Object", "Response Object",
   "External Documentation Object", "Info Object"}

\* The kinds whose switch ends in parseExtension.
StrictKinds == FieldKinds \ {"Reference Object"}

\* The known fields that the objects of these runs have.
DocumentKeys ==
  {"$ref", "description", "name", "contentType", "tokenUrl", "openapi", "get", "put",
   "externalDocs", "requestBody", "responses", "implicit", "info", "paths", "components",
   "server", "contact", "license"}

\* The keys of the objects of these runs: of the known fields some strings
\* and some objects, an extension, and keys no kind knows.
KeysOf(kind) ==
  IF kind \in MapKinds THEN {"/a", "x-a", "foo"}
  ELSE ((StringFields(kind) \cup DOMAIN ObjectFields(kind)) \cap DocumentKeys)
         \cup {"x-a", "x", "foo"}

RECURSIVE ObjectsOf(_, _)

\* The values an entry of an object of a kind may have.
ValuesOf(kind, key, depth) ==
  {StringValue} \cup
  (IF key \in {"foo", "$ref"} THEN {UndefinedValue} ELSE {}) \cup
  (IF depth = 0 THEN {}
   ELSE IF kind \in {"Paths Object", "Callback Object"}
   THEN ObjectsOf("Path Item Object", depth - 1)
   ELSE IF kind = "Responses Object"
   THEN ObjectsOf("Response Object", depth - 1) \cup ObjectsOf("Reference Object", depth - 1)
   ELSE IF key \in DOMAIN ObjectFields(kind)
   THEN ObjectsOf(ObjectFields(kind)[key].kind, depth - 1) \cup
        (IF ObjectFields(kind)[key].reference
         THEN ObjectsOf("Reference Object", depth - 1) ELSE {})
   ELSE {})

\* The entries an object of a kind may have.
EntriesOf(kind, depth) ==
  UNION {{EntryOf(key, value) : value \in ValuesOf(kind, key, depth)} : key \in KeysOf(kind)}

\* The objects below the one the validator is called on: of one entry at most,
\* and the references, of a $ref and one more entry at most.
ObjectsOf(kind, depth) ==
  IF kind = "Reference Object"
  THEN {ObjectValue(es) : es \in
          {es \in UNION {[1..n -> EntriesOf(kind, depth)] : n \in 1..2} :
             /\ \E i \in 1..Len(es) : es[i].key = "$ref"
             /\ \A i, j \in 1..Len(es) : es[i].key = es[j].key => i = j}}
  ELSE {ObjectValue(<<>>)} \cup {ObjectValue(<<e>>) : e \in EntriesOf(kind, depth)}

\* The lists of entries of the objects the validator is called on: distinct
\* keys, and one object among the values at most.
RECURSIVE EntryLists(_, _)
EntryLists(all, n) ==
  IF n = 0 THEN {<<>>}
  ELSE LET shorter == EntryLists(all, n - 1)
       IN shorter \cup
          UNION {{Append(es, e) : e \in {e \in all :
                                           /\ \A i \in 1..Len(es) : es[i].key # e.key
                                           /\ e.value.type = "object" =>
                                                \A i \in 1..Len(es) :
                                                  es[i].value.type # "object"}} :
                   es \in {es \in shorter : Len(es) = n - 1}}

ObjectsParsed(kind) ==
  LET all == EntriesOf(kind, MaxDepth)
  IN {ObjectValue(es) : es \in EntryLists(all, MaxKeys)}

ParseCall(kind, node) == [kind |-> kind, node |-> node]

InitParse ==
  /\ IdleDocument
  /\ NoParamsCall /\ NoOperationsCall /\ NoRequestCall /\ NoTemplateCall /\ NoNameCall
  /\ NoFilterCall /\ NoCommand
  /\ \E kind \in StrictKinds \cup MapKinds :
       parseCall \in {Some(ParseCall(kind, node)) : node \in ObjectsParsed(kind)}
  /\ parsed = None

NextParse == CallParseObject

SpecParse == InitParse /\ [][NextParse]_vars

\* A key that is neither a case of the switch of the kind nor an extension.
UnknownKey(kind, key) == key \notin KnownFields(kind) /\ ~StartsWith(key, "x-")

UnknownProperty(kind, key) == <<"Unknown", kind, "property", key>>

\* Of the entries the field parsers were called on: an unknown key of one of
\* the kinds is the last one, and the parse ended with its error.
UnknownKeysEndTheParse(kinds) ==
  IsDefined(parsed) =>
    LET out == Value(parsed)
    IN \A i \in 1..Len(out.visited) :
         LET kind == out.visited[i].kind
             key == out.visited[i].path[Len(out.visited[i].path)]
         IN kind \in kinds /\ UnknownKey(kind, key) =>
              /\ out.error = Some(UnknownProperty(kind, key))
              /\ i = Len(out.visited)

\* Of the object the validator was called on, when it is of one of the kinds:
\* an unknown key with a value makes the parse fail, and no entry after it
\* is looked at.
UnknownKeysFailTheCall(kinds) ==
  IsDefined(parsed) /\ Value(parseCall).kind \in kinds =>
    LET out == Value(parsed)
        kind == Value(parseCall).kind
        entries == Value(parseCall).node.entries
    IN \A i \in 1..Len(entries) :
         UnknownKey(kind, entries[i].key) /\ entries[i].value.type # "undefined" =>
           /\ IsDefined(out.error)
           /\ \A j \in (i + 1)..Len(entries) : \A k \in 1..Len(out.visited) :
                out.visited[k].path[1] # entries[j].key

\* C26 as stated: for every object kind with a switch over its fields, a
\* key that is neither a known field nor prefixed with x- makes parsing fail
\* with "Unknown <kind> property", and the failure aborts the whole parse.
C26_UnknownKeysAreErrors ==
  UnknownKeysEndTheParse(FieldKinds) /\ UnknownKeysFailTheCall(FieldKinds)

\* C26, amended: the same for every kind but the Reference Object, and for a
\* key whose value is not undefined.
C26_UnknownKeysAreErrorsButInReferences ==
  UnknownKeysEndTheParse(StrictKinds) /\ UnknownKeysFailTheCall(StrictKinds)

\* An unknown key of an object below the one the validator was called on
\* ended the parse, after an entry was parsed and before another was.
C26_Witness ==
  /\ IsDefined(parsed)
  /\ LET out == Value(parsed)
         entries == Value(parseCall).node.entries
         last == out.visited[Len(out.visited)]
     IN /\ Len(out.visited) >= 2
        /\ Len(last.path) = 2
        /\ last.kind \in StrictKinds
        /\ out.error = Some(UnknownProperty(last.kind, last.path[2]))
        /\ Len(entries) = 2
        /\ last.path[1] = entries[1].key
        /\ entries[2].value.type # "undefined"

====
